---- MODULE Spec2Model ----
(***************************************************************************)
(* Hybrid synchronization and failover engine of 2D-Mandrake:              *)
(* DatabaseManager (src/database_manager.py) and SSHTunnel                 *)
(* (src/utils/sshtunnel_helper.py).                                        *)
(*                                                                         *)
(* A table is a function from primary keys to rows.  A row is a record     *)
(* [k, b]: for tickets k is the reconciliation tuple (title, logged_by,    *)
(* asset_id) and b the remaining columns; for ticket_attachments k is      *)
(* ticket_id; for companion_users k is the UNIQUE username; for assets k   *)
(* is unused.                                                              *)
(***************************************************************************)
EXTENDS Integers, Sequences, FiniteSets, TLC

\* ------------------------------------------------------------------ bounds
MaxId == 4
MaxKey == 1
MaxBody == 2
MaxAttach == 1
MaxUid == 2
MaxTunnels == 3
MaxConns == 2
MaxClock == 2
MaxLinks == 2
MaxAssets == 2
MaxDepth == 4

\* --------------------------------------------------------------- constants
Endpoints == {"PRIMARY", "BACKUP"}
NullKey == 0
Keys == 0..MaxKey
PullTables == <<"assets", "tickets", "ticket_attachments">>
LocalTables == {"assets", "tickets", "ticket_attachments"}
CloudTables == {"assets", "tickets", "ticket_attachments", "companion_users"}
UniqueKeyTables == {"companion_users"}
EmptyTable == [i \in {} |-> [k |-> 0, b |-> 0]]
NoCall == [q |-> "", val |-> "none"]
Hosts == {"VPS", "OTHER"}

VARIABLES
    secrets,        \* which of [mysql], [mysql_backup] are configured
    reach,          \* environment: would a connect to the endpoint succeed now
    mode,           \* self.mode
    cloud_source,   \* self.cloud_source
    probes,         \* endpoints tried by _get_cloud_conn in the latest manager step (<<>>: none)
    execLog,        \* statements run by execute() in the latest manager step (<<>>: none)
    execRet,        \* that execute() call: its query and what it returned (NoCall: none)
    local,          \* local_cache.db: [LocalTables -> table]
    cloud,          \* the two MySQL instances: [Endpoints -> [CloudTables -> table]]
    rnext,          \* AUTO_INCREMENT counter of tickets on each instance
    offline,        \* the tickets created while mode was LOCAL, as created
    nextBody,       \* stamp for the next created ticket (created_at, description)
    pc,             \* position of the running sync(): idle, push, files, connect, pull, done
    pullIdx,        \* index into PullTables of the table the pull handles next
    pullConn,       \* the instance the pull's cloud_conn is connected to
    syncLog,        \* phases of the current or most recent sync(), in order
    syncRet,        \* success flag returned by the most recent sync()
    unext,          \* AUTO_INCREMENT counter of companion_users on the VPS instance
    ssh_host,       \* host of the [ssh] section of the secrets
    sshUp,          \* environment: would an SSH connect succeed now
    tunnels,        \* every SSHTunnel object constructed so far
    transports,     \* every paramiko SSHClient connection opened so far
    sockets,        \* every local socket bound so far (its index is its port)
    ssh_tunnel,     \* self.ssh_tunnel: index into tunnels, 0 for None
    ssh_local_port, \* self.ssh_local_port: 0 for None
    tpc,            \* per thread: position inside _connect_to_source / _get_vps_conn
    tobj,           \* per thread: the SSHTunnel whose start() it is running
    tloc,           \* per thread: the value start() is about to return
    tres,           \* per thread: port the connection was made through (0: None)
    schema,         \* local_cache.db has the tables of _ensure_local_schema
    cfgOk,          \* the secrets store can be read (st.secrets does not raise)
    raised,         \* an exception left the latest constructor, sync() or reconnect
    pc2,            \* position of a second sync() call running on another thread
    pullIdx2,       \* that call's index into PullTables
    pullConn2,      \* the instance that call's cloud_conn is connected to
    txn,            \* the two open transactions of a running _push_local_tickets
    stop_event,     \* SSHTunnel._stop_event is set
    transport,      \* the transport of SSHTunnel.client: active, closed
    loop,           \* position of _forward_loop: check, select, handle, ended
    handling,       \* the connection _handle_forward is working on (0: none)
    backlog,        \* connections made to the local port, not yet accepted
    fc,             \* the forwarded connections: sockets, channel, the two workers
    closeWakesRecv, \* platform: closing a socket ends a recv blocked on it
    tcall,          \* the ticket creation in flight: its INSERT is done, its id not yet returned
    tret,           \* what the latest ticket creation returned
    absent,         \* per instance: the tables of the schema that do not exist on it
    cfgFile,        \* app_config.json: missing, unreadable, or its keys
    fs,             \* the storage directories: per path, whether it exists and its entries
    filesRet,       \* what the latest sync_files() returned: none, ok, fail
    clock,          \* the client's clock, datetime.now(), in minutes
    due,            \* the ticket create_ticket inserted last: priority, times, due_date
    ctl,            \* asset_controls and asset_nist_controls on every store
    linkRet,        \* the latest link_asset_control call: its arguments, result and store
    tcol,           \* one offline ticket column by column: as created, in the cache, on the remote
    tas,            \* the rows of the latest ticket in each store: the tickets row, the ticket_assets rows
    taRet,          \* the latest create_ticket_with_assets call: its asset list, store and result
    rec             \* the execute() or sync() call in progress: its frames and its attempts so far

vars == <<secrets, reach, mode, cloud_source, probes, execLog, execRet,
          local, cloud, rnext, offline, nextBody, pc, pullIdx, pullConn,
          syncLog, syncRet, unext, ssh_host, sshUp, tunnels, transports, sockets,
          ssh_tunnel, ssh_local_port, tpc, tobj, tloc, tres,
          schema, cfgOk, raised, pc2, pullIdx2, pullConn2,
          txn, stop_event, transport, loop, handling, backlog, fc, closeWakesRecv,
          tcall, tret, absent, cfgFile, fs, filesRet, clock, due,
          ctl, linkRet, tcol, tas, taRet, rec>>

execVars == <<execLog, execRet>>
dataVars == <<local, cloud, rnext, offline, nextBody>>
syncVars == <<pc, pullIdx, pullConn, syncLog, syncRet>>
tunVars == <<ssh_host, sshUp, tunnels, transports, sockets, ssh_tunnel, ssh_local_port,
             tpc, tobj, tloc, tres>>
bootVars == <<schema, cfgOk, raised>>
raceVars == <<pc2, pullIdx2, pullConn2>>
fwdVars == <<stop_event, transport, loop, handling, backlog, fc, closeWakesRecv>>
createVars == <<tcall, tret>>
replVars == <<absent>>
fileVars == <<cfgFile, fs, filesRet>>
slaVars == <<clock, due>>
linkVars == <<ctl, linkRet>>
colVars == <<tcol>>
assetVars == <<tas, taRet>>
recVars == <<rec>>
appVars == <<createVars, replVars, fileVars, slaVars, linkVars, colVars, assetVars, recVars>>
notCreateVars == <<replVars, fileVars, slaVars, linkVars, colVars, assetVars, recVars>>
notReplVars == <<createVars, fileVars, slaVars, linkVars, colVars, assetVars, recVars>>
notFileVars == <<createVars, replVars, slaVars, linkVars, colVars, assetVars, recVars>>
notSlaVars == <<createVars, replVars, fileVars, linkVars, colVars, assetVars, recVars>>
notLinkVars == <<createVars, replVars, fileVars, slaVars, colVars, assetVars, recVars>>
notColVars == <<createVars, replVars, fileVars, slaVars, linkVars, assetVars, recVars>>
notAssetVars == <<createVars, replVars, fileVars, slaVars, linkVars, colVars, recVars>>
notRecVars == <<createVars, replVars, fileVars, slaVars, linkVars, colVars, assetVars>>
extVars == <<bootVars, raceVars, txn, fwdVars, appVars>>

\* ----------------------------------------------------------------- helpers
MaxOf(S) == IF S = {} THEN 0 ELSE CHOOSE m \in S : \A x \in S : x <= m
MinOf(S) == CHOOSE m \in S : \A x \in S : m <= x

\* sqlite INTEGER PRIMARY KEY without AUTOINCREMENT: max(rowid) + 1
LocalNextId(tbl) == MaxOf(DOMAIN tbl) + 1

Put(tbl, id, row) == [i \in DOMAIN tbl \cup {id} |-> IF i = id THEN row ELSE tbl[i]]
Drop(tbl, id) == [i \in DOMAIN tbl \ {id} |-> tbl[i]]

\* ------------------------------------------------- connection resolution
\* A resolver that tries the backup before the primary
get_cloud_conn_backup_first(sec, rch) ==
    LET tryB == sec.mysql_backup
        okB == tryB /\ rch["BACKUP"]
        tryP == ~okB /\ sec.mysql
        okP == tryP /\ rch["PRIMARY"]
    IN [conn |-> IF okB THEN "BACKUP" ELSE IF okP THEN "PRIMARY" ELSE "NONE",
        probes |-> (IF tryB THEN <<"BACKUP">> ELSE <<>>)
                   \o (IF tryP THEN <<"PRIMARY">> ELSE <<>>)]

\* _get_cloud_conn: primary first, backup only when the primary is not
\* configured or its connect fails; None ("NONE") when neither answers.
get_cloud_conn(sec, rch) ==
    LET tryP == sec.mysql
        okP == tryP /\ rch["PRIMARY"]
        tryB == ~okP /\ sec.mysql_backup
        okB == tryB /\ rch["BACKUP"]
    IN [conn |-> IF okP THEN "PRIMARY" ELSE IF okB THEN "BACKUP" ELSE "NONE",
        probes |-> (IF tryP THEN <<"PRIMARY">> ELSE <<>>)
                   \o (IF tryB THEN <<"BACKUP">> ELSE <<>>)]

\* A resolver that records the source of its first success only
SourceAfterFirstOnly(old, r) == IF old # "NONE" THEN old ELSE r.conn

\* self.cloud_source after a _get_cloud_conn call: written only on success
SourceAfter(old, r) == IF r.conn = "NONE" THEN old ELSE r.conn

\* _test_cloud_connection: True iff _get_cloud_conn returned a live connection
test_cloud_connection(sec, rch) == get_cloud_conn(sec, rch).conn # "NONE"

\* An exception raised inside "try: ... except Exception:" does not leave it
Caught(exc) == FALSE

\* _get_cloud_conn: the connects are inside try/except (139-146, 150-157);
\* reading the secrets store (135-138) is not, and raises when there is none
GetCloudConnRaises(cfg) == ~cfg

\* A probe that lets the exceptions of _get_cloud_conn through
TestCloudConnectionUnguarded(cfg) == GetCloudConnRaises(cfg)

\* _test_cloud_connection: the whole probe is inside try/except (118-127)
TestCloudConnectionRaises(cfg) == Caught(GetCloudConnRaises(cfg))

\* ------------------------------------------------------------------- push
\* UPDATE tickets SET id = new WHERE id = old
Rekey(tbl, old, new) ==
    IF old \in DOMAIN tbl THEN Put(Drop(tbl, old), new, tbl[old]) ELSE tbl

\* UPDATE ticket_attachments SET ticket_id = new WHERE ticket_id = old
Remap(att, old, new) ==
    [i \in DOMAIN att |-> IF att[i].k = old THEN [att[i] EXCEPT !.k = new] ELSE att[i]]

\* SELECT id FROM tickets WHERE title=%s AND logged_by=%s AND asset_id=%s
\* (a NULL asset_id compares equal to nothing)
ExistsInCloud(R, t) == \E r \in DOMAIN R : R[r].k = t.k /\ t.k # NullKey

\* The loop of _push_local_tickets over the snapshot `snap` of local tickets,
\* in id order.  L, A: local tickets and attachments inside the local
\* transaction; R: cloud tickets inside the cloud transaction; N: the cloud
\* AUTO_INCREMENT counter; cnt: pushed_count.  ok = FALSE: the UPDATE of
\* the primary key raised (the new id is the key of another local row).
RECURSIVE PushLoop(_, _, _, _, _, _, _)
PushLoop(todo, snap, L, A, R, N, cnt) ==
    IF todo = {}
    THEN [ok |-> TRUE, L |-> L, A |-> A, R |-> R, N |-> N, cnt |-> cnt]
    ELSE LET old == MinOf(todo)
             t == snap[old]
         IN IF ExistsInCloud(R, t)
            THEN PushLoop(todo \ {old}, snap, L, A, R, N, cnt)
            ELSE IF N # old /\ N \in DOMAIN L
                 THEN [ok |-> FALSE, L |-> L, A |-> A, R |-> R, N |-> N + 1, cnt |-> cnt]
                 ELSE PushLoop(todo \ {old}, snap, Rekey(L, old, N), Remap(A, old, N),
                               Put(R, N, t), N + 1, cnt + 1)

\* _push_local_tickets against the instance `e` (or "NONE": _get_cloud_conn
\* returned None and cloud_conn.cursor raises).  Both connections commit only
\* when the loop ends normally; an exception leaves both transactions
\* uncommitted, and the AUTO_INCREMENT values it consumed stay consumed.
push_local_tickets(L, C, RN, e) ==
    IF e = "NONE"
    THEN [ok |-> FALSE, local |-> L, cloud |-> C, rnext |-> RN]
    ELSE LET p == PushLoop(DOMAIN L["tickets"], L["tickets"], L["tickets"],
                           L["ticket_attachments"], C[e]["tickets"], RN[e], 0)
         IN IF p.ok
            THEN [ok |-> TRUE,
                  local |-> [L EXCEPT !["tickets"] = p.L, !["ticket_attachments"] = p.A],
                  cloud |-> [C EXCEPT ![e]["tickets"] = p.R],
                  rnext |-> [RN EXCEPT ![e] = p.N]]
            ELSE [ok |-> FALSE, local |-> L, cloud |-> C,
                  rnext |-> [RN EXCEPT ![e] = p.N]]

\* ------------------------------------------------------------------- pull
\* A pull that keeps the local row on a key conflict (INSERT OR IGNORE)
InsertOrIgnore(ltbl, rtbl) ==
    [i \in DOMAIN ltbl \cup DOMAIN rtbl |-> IF i \in DOMAIN ltbl THEN ltbl[i] ELSE rtbl[i]]

\* INSERT OR REPLACE INTO tbl (...) VALUES (...) for every row of the cloud table
InsertOrReplace(ltbl, rtbl) ==
    [i \in DOMAIN ltbl \cup DOMAIN rtbl |-> IF i \in DOMAIN rtbl THEN rtbl[i] ELSE ltbl[i]]

PullOutcome(rtbl, failed) ==
    IF failed THEN "failed" ELSE IF DOMAIN rtbl = {} THEN "empty" ELSE "ok"

\* ---------------------------------------------------------------- execute
Queries == {"q1", "q2"}

\* The LOCAL branch of execute(): the statement runs once on sqlite; an
\* exception is caught and [] / False ("fail") is returned.
LocalRun(q, lfault) ==
    [log |-> <<[store |-> "LOCAL", q |-> q, ok |-> ~lfault]>>,
     ret |-> [q |-> q, val |-> IF lfault THEN "fail" ELSE "ok"],
     store |-> IF lfault THEN "NONE" ELSE "LOCAL"]

\* An executor that reports a cloud failure instead of failing over
execute_no_failover(m, sec, rch, cs, q, qfault, lfault) ==
    IF m = "CLOUD"
    THEN LET ok == (sec.mysql /\ rch["PRIMARY"]) \/ (sec.mysql_backup /\ rch["BACKUP"])
         IN [mode |-> "CLOUD", source |-> cs, probes |-> <<"PRIMARY">>,
             log |-> IF ok /\ ~qfault THEN <<[store |-> "PRIMARY", q |-> q, ok |-> TRUE]>>
                     ELSE <<>>,
             ret |-> [q |-> q, val |-> IF ok /\ ~qfault THEN "ok" ELSE "fail"],
             store |-> IF ok /\ ~qfault THEN "PRIMARY" ELSE "NONE"]
    ELSE [mode |-> m, source |-> cs, probes |-> <<>>,
          log |-> LocalRun(q, lfault).log, ret |-> LocalRun(q, lfault).ret,
          store |-> LocalRun(q, lfault).store]

\* An executor that probes the cloud again on every call made in LOCAL mode
execute_reprobing(m, sec, rch, cs, q, qfault, lfault) ==
    LET ok == sec.mysql /\ rch["PRIMARY"]
    IN IF ok /\ ~qfault
       THEN [mode |-> "CLOUD", source |-> "PRIMARY", probes |-> <<"PRIMARY">>,
             log |-> <<[store |-> "PRIMARY", q |-> q, ok |-> TRUE]>>,
             ret |-> [q |-> q, val |-> "ok"], store |-> "PRIMARY"]
       ELSE [mode |-> "LOCAL", source |-> cs, probes |-> <<>>,
             log |-> LocalRun(q, lfault).log, ret |-> LocalRun(q, lfault).ret,
             store |-> LocalRun(q, lfault).store]

\* execute(query, params, fetch).  qfault: the statement raises on the cloud
\* connection; lfault: it raises on sqlite.  In CLOUD mode any exception
\* (conn is None, or the statement raised) sets mode to LOCAL and re-enters
\* execute, which then takes the LOCAL branch.  store: where the statement
\* took effect.
execute(m, sec, rch, cs, q, qfault, lfault) ==
    IF m = "CLOUD"
    THEN LET r == get_cloud_conn(sec, rch)
             src == SourceAfter(cs, r)
         IN IF r.conn # "NONE" /\ ~qfault
            THEN [mode |-> "CLOUD", source |-> src, probes |-> r.probes,
                  log |-> <<[store |-> r.conn, q |-> q, ok |-> TRUE]>>,
                  ret |-> [q |-> q, val |-> "ok"], store |-> r.conn]
            ELSE LET l == LocalRun(q, lfault)
                     tried == IF r.conn # "NONE"
                              THEN <<[store |-> r.conn, q |-> q, ok |-> FALSE]>>
                              ELSE <<>>
                 IN [mode |-> "LOCAL", source |-> src, probes |-> r.probes,
                     log |-> tried \o l.log, ret |-> l.ret, store |-> l.store]
    ELSE LET l == LocalRun(q, lfault)
         IN [mode |-> m, source |-> cs, probes |-> <<>>,
             log |-> l.log, ret |-> l.ret, store |-> l.store]

\* ------------------------------------------------------------- SSH tunnel
NoTunnels == <<>>

\* No SSHTunnel constructed yet (DatabaseManager.__init__: ssh_tunnel = None,
\* ssh_local_port = None); `threads` are the caller threads
TunnelInit(threads, h, up) ==
    /\ ssh_host = h
    /\ sshUp = up
    /\ tunnels = NoTunnels
    /\ transports = NoTunnels
    /\ sockets = NoTunnels
    /\ ssh_tunnel = 0
    /\ ssh_local_port = 0
    /\ tpc = [t \in threads |-> "idle"]
    /\ tobj = [t \in threads |-> 0]
    /\ tloc = [t \in threads |-> 0]
    /\ tres = [t \in threads |-> 0]

\* -------------------------------------------------------------------- Init
\* After __init__ the local schema exists (line 79, or line 72 through
\* _sync_schema) and no exception has left a call
BootInit == schema = TRUE /\ cfgOk = TRUE /\ raised = FALSE

\* No second sync() call is running
RaceInit == pc2 = "idle" /\ pullIdx2 = 1 /\ pullConn2 = "NONE"

\* No _push_local_tickets is running
NoTxn == [on |-> FALSE, conn |-> "NONE", todo |-> {}, snap |-> EmptyTable,
          L |-> EmptyTable, A |-> EmptyTable, R |-> EmptyTable, N |-> 0, cnt |-> 0,
          stage |-> "loop", old |-> 0, new |-> 0]

Conns == 1..MaxConns

\* A connection nobody has made yet
NoConn == [cli |-> "none", lsock |-> "none", chan |-> "none", up |-> "none",
           down |-> "none", upData |-> FALSE, downData |-> FALSE, late |-> FALSE]

\* A tunnel whose start() has returned: transport connected, socket listening,
\* _forward_loop running, nothing accepted yet
FwdInit(wakes) ==
    /\ stop_event = FALSE
    /\ transport = "active"
    /\ loop = "check"
    /\ handling = 0
    /\ backlog = {}
    /\ fc = [c \in Conns |-> NoConn]
    /\ closeWakesRecv = wakes

\* ------------------------------------------------ storage configuration
DefaultLocalPath == "2D_Storage"
Paths == {"", "2D_Storage", "share"}
NoKey == "<no key>"

\* app_config.json: state "missing" (no file), "corrupt" (json.load raises)
\* or "ok" with the keys it holds (NoKey: the key is not in the file)
NoConfigFile ==
    [state |-> "missing", local_path |-> NoKey, network_path |-> NoKey,
     storage_path |-> NoKey]
ConfigFiles ==
    {NoConfigFile, [NoConfigFile EXCEPT !.state = "corrupt"]}
    \cup [state : {"ok"}, local_path : Paths \cup {NoKey},
          network_path : Paths \cup {NoKey}, storage_path : Paths \cup {NoKey}]

StorageDefaults == [local_path |-> DefaultLocalPath, network_path |-> ""]

\* A reader that prefers the legacy storage_path key whenever it is there
get_storage_config_legacy_wins(cf) ==
    IF cf.state # "ok" THEN StorageDefaults
    ELSE LET np == IF cf.storage_path # NoKey THEN cf.storage_path ELSE cf.network_path
         IN [local_path |-> IF cf.local_path = NoKey THEN StorageDefaults.local_path
                            ELSE cf.local_path,
             network_path |-> IF np = NoKey THEN StorageDefaults.network_path ELSE np]

\* get_storage_config: the defaults when the file is missing or cannot be
\* read; storage_path stands in for a network_path that is not in the file
get_storage_config(cf) ==
    IF cf.state # "ok" THEN StorageDefaults
    ELSE LET np == IF cf.storage_path # NoKey /\ cf.network_path = NoKey
                   THEN cf.storage_path ELSE cf.network_path
         IN [local_path |-> IF cf.local_path = NoKey THEN StorageDefaults.local_path
                            ELSE cf.local_path,
             network_path |-> IF np = NoKey THEN StorageDefaults.network_path ELSE np]

\* A writer that leaves the legacy key in the file
set_storage_config_keeping_legacy(cf, l, n) ==
    [state |-> "ok", local_path |-> l, network_path |-> n,
     storage_path |-> cf.storage_path]

\* set_storage_config: the file's keys (none when it is missing or
\* unreadable) with local_path and network_path set and storage_path deleted
set_storage_config(cf, l, n) ==
    [state |-> "ok", local_path |-> l, network_path |-> n, storage_path |-> NoKey]

\* ---------------------------------------------------- storage directories
Dirs == Paths \ {""}
Names == {"a", "b"}
Contents == {1, 2}

\* An entry of a directory: a regular file with its content, or a
\* subdirectory
Entries == [kind : {"file"}, c : Contents] \cup {[kind |-> "dir", c |-> 0]}
EmptyDir == [x \in {} |-> [kind |-> "file", c |-> 1]]
NoDir == [exists |-> FALSE, ent |-> EmptyDir]

\* Every directory: missing, or existing with any entries under Names
DirStates ==
    {NoDir} \cup
    {[exists |-> TRUE, ent |-> e] : e \in UNION {[S -> Entries] : S \in SUBSET Names}}

\* The names of the regular files of a directory (os.path.isfile)
FileNames(d) == {x \in DOMAIN d : d[x].kind = "file"}

\* One copy loop of _sync_files: every regular file of `from` whose name
\* does not exist in `to` is copied there (shutil.copy2)
CopyMissing(from, to) ==
    [x \in DOMAIN to \cup FileNames(from) |-> IF x \in DOMAIN to THEN to[x] ELSE from[x]]

\* A copy loop that also replaces a file of `to` whose content differs
CopyDiffering(from, to) ==
    [x \in DOMAIN to \cup FileNames(from) |->
        IF x \in FileNames(from) /\ (x \notin DOMAIN to \/ to[x].kind = "file")
        THEN from[x] ELSE to[x]]

\* A file sync that creates the local directory before it validates the
\* network path
sync_files_mkdir_first(F, cf) ==
    LET c == get_storage_config(cf)
        l == c.local_path
        n == c.network_path
    IN IF l = "" THEN [ok |-> FALSE, fs |-> F]
       ELSE LET F1 == [F EXCEPT ![l] = [exists |-> TRUE, ent |-> F[l].ent]]
            IN IF n = "" \/ l = n \/ ~F[n].exists THEN [ok |-> TRUE, fs |-> F1]
               ELSE LET loc1 == CopyMissing(F[n].ent, F[l].ent)
                        net1 == CopyMissing(loc1, F[n].ent)
                    IN [ok |-> TRUE,
                        fs |-> [F EXCEPT ![l] = [exists |-> TRUE, ent |-> loc1],
                                         ![n] = [exists |-> TRUE, ent |-> net1]]]

\* A file sync that only pulls from the network directory
sync_files_pull_only(F, cf) ==
    LET c == get_storage_config(cf)
        l == c.local_path
        n == c.network_path
    IN IF n = "" \/ l = n \/ ~F[n].exists THEN [ok |-> TRUE, fs |-> F]
       ELSE IF l = "" THEN [ok |-> FALSE, fs |-> F]
       ELSE [ok |-> TRUE,
             fs |-> [F EXCEPT ![l] = [exists |-> TRUE,
                                      ent |-> CopyMissing(F[n].ent, F[l].ent)]]]

\* A file sync that copies in both directions whatever exists
sync_files_overwriting(F, cf) ==
    LET c == get_storage_config(cf)
        l == c.local_path
        n == c.network_path
    IN IF n = "" \/ l = n \/ ~F[n].exists THEN [ok |-> TRUE, fs |-> F]
       ELSE IF l = "" THEN [ok |-> FALSE, fs |-> F]
       ELSE LET loc1 == CopyDiffering(F[n].ent, F[l].ent)
                net1 == CopyDiffering(loc1, F[n].ent)
            IN [ok |-> TRUE,
                fs |-> [F EXCEPT ![l] = [exists |-> TRUE, ent |-> loc1],
                                 ![n] = [exists |-> TRUE, ent |-> net1]]]

\* sync_files() around _sync_files(): nothing is done when the network path
\* is unset, equal to the local path, or does not exist; otherwise the local
\* directory is created if missing (os.makedirs raises on an empty path, and
\* sync_files returns (False, ...)), then the files missing locally are
\* pulled and the files missing on the network path are pushed
sync_files(F, cf) ==
    LET c == get_storage_config(cf)
        l == c.local_path
        n == c.network_path
    IN IF n = "" \/ l = n \/ ~F[n].exists THEN [ok |-> TRUE, fs |-> F]
       ELSE IF l = "" THEN [ok |-> FALSE, fs |-> F]
       ELSE LET loc1 == CopyMissing(F[n].ent, F[l].ent)
                net1 == CopyMissing(loc1, F[n].ent)
            IN [ok |-> TRUE,
                fs |-> [F EXCEPT ![l] = [exists |-> TRUE, ent |-> loc1],
                                 ![n] = [exists |-> TRUE, ent |-> net1]]]

\* No ticket creation in flight, none returned yet
NoTicketCall == [who |-> "none", store |-> "NONE", cur |-> 0, stamp |-> 0]
NoTicketRet == [who |-> "none", ok |-> FALSE, id |-> 0, store |-> "NONE", stamp |-> 0]

\* Every table of the schema exists on both instances
FullSchema == [e \in Endpoints |-> {}]

CreateInit ==
    /\ tcall = NoTicketCall
    /\ tret = NoTicketRet

\* No app_config.json and no storage directory yet
FileInit ==
    /\ cfgFile = NoConfigFile
    /\ fs = [d \in Dirs |-> NoDir]
    /\ filesRet = "none"

\* No ticket created yet
NoDue == [priority |-> "", at |-> 0, created_at |-> 0, due_date |-> 0]

SlaInit ==
    /\ clock = 0
    /\ due = NoDue

\* The two mapping tables; every store holds them, empty at first
CtlTables == {"asset_controls", "asset_nist_controls"}
Stores == Endpoints \cup {"LOCAL"}
NoRows == [i \in {} |-> [asset_id |-> 0, control_id |-> 0, status |-> "", notes |-> ""]]
NoLink == [tbl |-> "", asset_id |-> 0, control_id |-> 0, status |-> "", notes |-> "",
           ok |-> FALSE, store |-> "NONE"]

LinkInit ==
    /\ ctl = [st \in Stores |-> [t \in CtlTables |-> NoRows]]
    /\ linkRet = NoLink

\* The columns of tickets besides the key and the two timestamps
TicketColumns ==
    {"asset_id", "related_type", "ticket_type", "title", "description", "status",
     "priority", "logged_by", "assigned_to", "due_date"}
Null == "NULL"
NoRow == [c \in TicketColumns |-> Null]
NoTk == [stage |-> "none", created |-> NoRow, local |-> NoRow, remote |-> NoRow]

ColInit == tcol = NoTk

\* No ticket of create_ticket_with_assets stored yet, no call made
NoTicketRows == [ticket |-> FALSE, links |-> <<>>]
NoTaRet == [called |-> FALSE, ok |-> FALSE, assets |-> <<>>, store |-> "NONE"]

AssetInit ==
    /\ tas = [st \in Stores |-> NoTicketRows]
    /\ taRet = NoTaRet

\* No execute() or sync() call is being followed frame by frame
NoCallFrames == [fn |-> "none", pos |-> "none", depth |-> 0, remote |-> 0, sqlite |-> 0,
                 reprobes |-> 0]

RecInit == rec = NoCallFrames

AppInit ==
    /\ CreateInit
    /\ absent = FullSchema
    /\ FileInit
    /\ SlaInit
    /\ LinkInit
    /\ ColInit
    /\ AssetInit
    /\ RecInit

ExtInit == BootInit /\ RaceInit /\ txn = NoTxn /\ FwdInit(FALSE) /\ AppInit

SeedAssets == [i \in {1} |-> [k |-> 0, b |-> 1]]

EmptyLocal == [t \in LocalTables |-> EmptyTable]

\* The pull of a first sync() into an empty cache
FirstPull(db) == [t \in LocalTables |-> InsertOrReplace(EmptyTable, db[t])]

\* _get_vps_conn takes the entry whose host is the VPS address: [mysql] first
SecretsSet ==
    {x \in [mysql : BOOLEAN, mysql_backup : BOOLEAN, vps : Endpoints \cup {"NONE"}] :
        /\ x.vps = "PRIMARY" => x.mysql
        /\ x.vps = "BACKUP" => x.mysql_backup}

\* __init__: probe the cloud; CLOUD and a first sync() when a remote answers,
\* LOCAL with the local schema ensured otherwise.
InitManager(sec, rch, c, nb) ==
    LET r == get_cloud_conn(sec, rch)
    IN /\ secrets = sec
       /\ reach = rch
       /\ cloud = c
       /\ mode = IF r.conn # "NONE" THEN "CLOUD" ELSE "LOCAL"
       /\ cloud_source = r.conn
       /\ probes = r.probes
       /\ local = IF r.conn # "NONE" THEN FirstPull(c[r.conn]) ELSE EmptyLocal
       /\ rnext = [e \in Endpoints |-> MaxOf(DOMAIN c[e]["tickets"]) + 1]
       /\ execLog = <<>>
       /\ execRet = NoCall
       /\ offline = {}
       /\ nextBody = nb
       /\ pc = "idle"
       /\ pullIdx = 1
       /\ pullConn = "NONE"
       /\ syncLog = <<>>
       /\ syncRet = FALSE
       /\ unext = IF sec.vps = "NONE" THEN 1
                  ELSE MaxOf(DOMAIN c[sec.vps]["companion_users"]) + 1

SeedTickets == {EmptyTable, [i \in {1} |-> [k |-> 1, b |-> 0]]}

\* The cloud before the manager is constructed: tickets tk on the primary
SeedCloud(tk) ==
    [e \in Endpoints |->
        [t \in CloudTables |->
            IF e = "PRIMARY" /\ t = "assets" THEN SeedAssets
            ELSE IF e = "PRIMARY" /\ t = "tickets" THEN tk
            ELSE EmptyTable]]

\* An endpoint that is not configured is never probed: its reachability is
\* fixed to FALSE
ReachSet(sec) ==
    {r \in [Endpoints -> BOOLEAN] :
        /\ r["PRIMARY"] => sec.mysql
        /\ r["BACKUP"] => sec.mysql_backup}

\* A deployment with the primary only, where one ticket is still to be
\* created; or one with both instances (the VPS being the backup) whose
\* tickets have all been created
Init ==
    /\ \/ \E sec \in {x \in SecretsSet : x.mysql /\ ~x.mysql_backup /\ x.vps = "NONE"} :
             \E rch \in ReachSet(sec) :
                InitManager(sec, rch, SeedCloud(EmptyTable), MaxBody)
       \/ \E sec \in {x \in SecretsSet : x.mysql /\ x.mysql_backup /\ x.vps = "BACKUP"} :
             \E rch \in ReachSet(sec) :
                InitManager(sec, rch, SeedCloud(EmptyTable), MaxBody + 1)
    /\ TunnelInit({1}, "VPS", TRUE)
    /\ ExtInit

\* Every configuration
InitConn ==
    /\ \E sec \in SecretsSet : \E rch \in ReachSet(sec) :
          InitManager(sec, rch, SeedCloud(EmptyTable), MaxBody)
    /\ TunnelInit({1}, "VPS", TRUE)
    /\ ExtInit

InitSync ==
    /\ \E sec \in {x \in SecretsSet : x.mysql /\ ~x.mysql_backup /\ x.vps = "NONE"} :
          \E rch \in ReachSet(sec), tk \in SeedTickets :
             InitManager(sec, rch, SeedCloud(tk), 1)
    /\ TunnelInit({1}, "VPS", TRUE)
    /\ ExtInit

\* ----------------------------------------------------------------- actions
\* A manager step that does not call execute() (NoExec), or does not call
\* _get_cloud_conn (NoProbe)
NoExec == execLog' = <<>> /\ execRet' = NoCall
NoProbe == probes' = <<>>

\* The network changes under the program
EnvChange ==
    /\ \E rch \in ReachSet(secrets) : reach' = rch /\ rch # reach
    /\ UNCHANGED <<secrets, mode, cloud_source, probes, execVars, dataVars, syncVars>>
    /\ UNCHANGED <<unext, tunVars, extVars>>

\* Another session inserts a ticket on a cloud instance
RemoteInsert ==
    /\ nextBody <= MaxBody
    /\ \E e \in Endpoints, k \in Keys :
        /\ (e = "PRIMARY" /\ secrets.mysql) \/ (e = "BACKUP" /\ secrets.mysql_backup)
        /\ "tickets" \notin absent[e]
        /\ rnext[e] <= MaxId
        /\ cloud' = [cloud EXCEPT ![e]["tickets"] = Put(@, rnext[e], [k |-> k, b |-> nextBody])]
        /\ rnext' = [rnext EXCEPT ![e] = @ + 1]
    /\ nextBody' = nextBody + 1
    /\ UNCHANGED <<secrets, reach, mode, cloud_source, probes, execVars,
                   local, offline, syncVars>>
    /\ UNCHANGED <<unext, tunVars, extVars>>

\* sync(), first step.  CLOUD: _sync_schema (the local tables are created if
\* missing), then go on to _sync_data.  Otherwise probe; on success set CLOUD
\* and re-enter sync(), else return (False, "Cannot Sync").
SyncBegin ==
    /\ pc = "idle"
    /\ IF mode = "CLOUD"
       THEN /\ pc' = "push"
            /\ NoProbe
            /\ UNCHANGED <<mode, cloud_source, syncRet>>
       ELSE LET r == get_cloud_conn(secrets, reach)
            IN /\ cloud_source' = SourceAfter(cloud_source, r)
               /\ probes' = r.probes
               /\ IF test_cloud_connection(secrets, reach)
                  THEN mode' = "CLOUD" /\ pc' = "push" /\ UNCHANGED syncRet
                  ELSE UNCHANGED mode /\ pc' = "done" /\ syncRet' = FALSE
    /\ schema' = IF pc' = "push" THEN TRUE ELSE schema
    /\ raised' = IF mode = "CLOUD" THEN FALSE ELSE TestCloudConnectionRaises(cfgOk)
    /\ NoExec
    /\ UNCHANGED <<secrets, reach, dataVars, pullIdx, pullConn, syncLog>>
    /\ UNCHANGED <<unext, tunVars, cfgOk, raceVars, txn, fwdVars, appVars>>

\* A _sync_data whose push is not wrapped in try/except: a failed push ends
\* the sync
SyncPushAborting ==
    /\ pc = "push"
    /\ LET r == get_cloud_conn(secrets, reach)
           p == push_local_tickets(local, cloud, rnext, r.conn)
       IN /\ cloud_source' = SourceAfter(cloud_source, r)
          /\ probes' = r.probes
          /\ local' = p.local
          /\ cloud' = p.cloud
          /\ rnext' = p.rnext
          /\ syncLog' = Append(syncLog, [phase |-> "push", tbl |-> "tickets",
                                         out |-> IF p.ok THEN "ok" ELSE "failed",
                                         conn |-> r.conn])
          /\ pc' = IF p.ok THEN "files" ELSE "done"
          /\ syncRet' = FALSE
    /\ execLog' = <<>> /\ execRet' = NoCall
    /\ UNCHANGED <<secrets, reach, mode, offline, nextBody, pullIdx, pullConn>>
    /\ UNCHANGED <<unext, tunVars, extVars>>

\* _sync_data step 0: _push_local_tickets inside try/except
SyncPush ==
    /\ pc = "push"
    /\ rnext["PRIMARY"] + Cardinality(DOMAIN local["tickets"]) <= MaxId + 1
    /\ rnext["BACKUP"] + Cardinality(DOMAIN local["tickets"]) <= MaxId + 1
    /\ LET r == get_cloud_conn(secrets, reach)
           p == push_local_tickets(local, cloud, rnext, r.conn)
       IN /\ cloud_source' = SourceAfter(cloud_source, r)
          /\ probes' = r.probes
          /\ local' = p.local
          /\ cloud' = p.cloud
          /\ rnext' = p.rnext
          /\ syncLog' = Append(syncLog, [phase |-> "push", tbl |-> "tickets",
                                         out |-> IF p.ok THEN "ok" ELSE "failed",
                                         conn |-> r.conn])
    /\ pc' = "files"
    /\ NoExec
    /\ UNCHANGED <<secrets, reach, mode, offline, nextBody, pullIdx, pullConn, syncRet>>
    /\ UNCHANGED <<unext, tunVars, extVars>>

\* _sync_data step 0.5: _sync_files inside try/except
SyncFiles ==
    /\ pc = "files"
    /\ pc' = "connect"
    /\ syncLog' = Append(syncLog, [phase |-> "files", tbl |-> "", out |-> "ok",
                                   conn |-> "NONE"])
    /\ NoExec /\ NoProbe
    /\ fs' = sync_files(fs, cfgFile).fs
    /\ UNCHANGED <<secrets, reach, mode, cloud_source, dataVars,
                   pullIdx, pullConn, syncRet>>
    /\ UNCHANGED <<unext, tunVars, bootVars, raceVars, txn, fwdVars, notFileVars, cfgFile, filesRet>>

\* _sync_data: cloud_conn = _get_cloud_conn(); None makes cloud_conn.cursor
\* raise, which sync() catches and returns (False, ...)
SyncConnect ==
    /\ pc = "connect"
    /\ LET r == get_cloud_conn(secrets, reach)
       IN /\ cloud_source' = SourceAfter(cloud_source, r)
          /\ probes' = r.probes
          /\ IF r.conn = "NONE"
             THEN pc' = "done" /\ syncRet' = FALSE /\ UNCHANGED <<pullIdx, pullConn>>
             ELSE pc' = "pull" /\ pullIdx' = 1 /\ pullConn' = r.conn /\ UNCHANGED syncRet
    /\ NoExec
    /\ UNCHANGED <<secrets, reach, mode, dataVars, syncLog>>
    /\ UNCHANGED <<unext, tunVars, extVars>>

\* A table loop without the try/except around its body: the first table
\* that raises ends _sync_data, and sync() returns (False, ...)
SyncPullTableAborting ==
    /\ pc = "pull"
    /\ pullIdx <= Len(PullTables)
    /\ \E failed \in BOOLEAN :
        LET tbl == PullTables[pullIdx]
            rows == cloud[pullConn][tbl]
            out == PullOutcome(rows, failed)
        IN /\ local' = IF out = "ok"
                       THEN [local EXCEPT ![tbl] = InsertOrReplace(@, rows)]
                       ELSE local
           /\ syncLog' = Append(syncLog, [phase |-> "pull", tbl |-> tbl, out |-> out,
                                          conn |-> pullConn])
           /\ pc' = IF out = "failed" THEN "done" ELSE pc
    /\ pullIdx' = pullIdx + 1
    /\ NoExec /\ NoProbe
    /\ UNCHANGED <<secrets, reach, mode, cloud_source,
                   cloud, rnext, offline, nextBody, pullConn, syncRet>>
    /\ UNCHANGED <<unext, tunVars, extVars>>

\* _sync_data: one iteration of the table loop; an exception on the table
\* (failed) is printed and the loop goes on
SyncPullTable ==
    /\ pc = "pull"
    /\ pullIdx <= Len(PullTables)
    /\ \E failed \in BOOLEAN :
        LET tbl == PullTables[pullIdx]
            rows == cloud[pullConn][tbl]
            out == PullOutcome(rows, failed)
        IN /\ local' = IF out = "ok"
                       THEN [local EXCEPT ![tbl] = InsertOrReplace(@, rows)]
                       ELSE local
           /\ syncLog' = Append(syncLog, [phase |-> "pull", tbl |-> tbl, out |-> out,
                                          conn |-> pullConn])
    /\ pullIdx' = pullIdx + 1
    /\ NoExec /\ NoProbe
    /\ UNCHANGED <<secrets, reach, mode, cloud_source,
                   cloud, rnext, offline, nextBody, pc, pullConn, syncRet>>
    /\ UNCHANGED <<unext, tunVars, extVars>>

\* _sync_data ends (commit, close); sync() returns (True, "Sync Successful")
SyncEnd ==
    /\ pc = "pull"
    /\ pullIdx > Len(PullTables)
    /\ pc' = "done"
    /\ syncRet' = TRUE
    /\ NoExec /\ NoProbe
    /\ UNCHANGED <<secrets, reach, mode, cloud_source, dataVars,
                   pullIdx, pullConn, syncLog>>
    /\ UNCHANGED <<unext, tunVars, extVars>>

\* sync() has returned to its caller
SyncReturn ==
    /\ pc = "done"
    /\ pc' = "idle"
    /\ pullIdx' = 1
    /\ pullConn' = "NONE"
    /\ syncLog' = <<>>
    /\ syncRet' = FALSE
    /\ NoExec /\ NoProbe
    /\ UNCHANGED <<secrets, reach, mode, cloud_source, dataVars>>
    /\ UNCHANGED <<unext, tunVars, extVars>>

\* The "Reconnect Cloud" button of render_sidebar_status (shown when not CLOUD)
Reconnect ==
    /\ pc = "idle"
    /\ mode # "CLOUD"
    /\ LET r == get_cloud_conn(secrets, reach)
       IN /\ cloud_source' = SourceAfter(cloud_source, r)
          /\ probes' = r.probes
          /\ mode' = IF test_cloud_connection(secrets, reach) THEN "CLOUD" ELSE mode
    /\ raised' = TestCloudConnectionRaises(cfgOk)
    /\ NoExec
    /\ UNCHANGED <<secrets, reach, dataVars, syncVars>>
    /\ UNCHANGED <<unext, tunVars, schema, cfgOk, raceVars, txn, fwdVars, appVars>>

\* execute() of a statement on tables outside the modelled ones
Execute ==
    /\ pc = "idle"
    /\ \E q \in Queries, qfault \in BOOLEAN, lfault \in BOOLEAN :
        LET x == execute(mode, secrets, reach, cloud_source, q, qfault, lfault)
        IN /\ mode' = x.mode
           /\ cloud_source' = x.source
           /\ probes' = x.probes
           /\ execLog' = x.log
           /\ execRet' = x.ret
    /\ UNCHANGED <<secrets, reach, dataVars, syncVars>>
    /\ UNCHANGED <<unext, tunVars, extVars>>

\* ------------------------------------------ one ticket, column by column
\* The rows create_ticket and create_ticket_with_assets store in LOCAL mode
CreatedRows ==
    {r \in [TicketColumns -> {Null, "x", "y"}] :
        /\ r["asset_id"] \in {Null, "x"}
        /\ r["related_type"] \in {Null, "x"}
        /\ r["ticket_type"] = "x"
        /\ r["title"] = "x"
        /\ r["description"] = "x"
        /\ r["status"] \in {"x", "y"}
        /\ r["priority"] \in {"x", "y"}
        /\ r["logged_by"] = "x"
        /\ r["assigned_to"] \in {Null, "x"}
        /\ r["due_date"] \in {"x", "y"}}

\* The column list of the INSERT in _push_local_tickets
PushColumns ==
    {"asset_id", "ticket_type", "title", "description", "priority", "status", "logged_by"}

\* The remote row after that INSERT: a column outside the list is NULL
PushedRow(t) == [c \in TicketColumns |-> IF c \in PushColumns THEN t[c] ELSE Null]

\* A ticket is created while LOCAL
ColCreate ==
    /\ tcol.stage = "none"
    /\ \E r \in CreatedRows :
          tcol' = [stage |-> "offline", created |-> r, local |-> r, remote |-> NoRow]
    /\ UNCHANGED <<secrets, reach, mode, cloud_source, probes, execVars, dataVars, syncVars>>
    /\ UNCHANGED <<unext, tunVars, bootVars, raceVars, txn, fwdVars, notColVars>>

\* _push_local_tickets inserts it on the remote (the local row only changes
\* its id)
ColPush ==
    /\ tcol.stage = "offline"
    /\ tcol' = [tcol EXCEPT !.stage = "pushed", !.remote = PushedRow(tcol.local)]
    /\ UNCHANGED <<secrets, reach, mode, cloud_source, probes, execVars, dataVars, syncVars>>
    /\ UNCHANGED <<unext, tunVars, bootVars, raceVars, txn, fwdVars, notColVars>>

\* The pull of the same cycle: INSERT OR REPLACE INTO tickets with every
\* column of the remote row
ColPull ==
    /\ tcol.stage = "pushed"
    /\ tcol' = [tcol EXCEPT !.stage = "synced", !.local = tcol.remote]
    /\ UNCHANGED <<secrets, reach, mode, cloud_source, probes, execVars, dataVars, syncVars>>
    /\ UNCHANGED <<unext, tunVars, bootVars, raceVars, txn, fwdVars, notColVars>>

\* ------------------------------------------------ asset-control upsert
\* A statement is the sequence of its pieces; "%s" and "?" are the markers
\* link_asset_control / link_asset_nist_control: the text passed to execute()
UpsertQuery(t) ==
    <<"INSERT INTO", t, "(asset_id, control_id, status, notes)", "VALUES",
      "%s", "%s", "%s", "%s",
      "ON DUPLICATE KEY UPDATE", "status=", "%s", "notes=", "%s">>

\* ... and its parameter tuple (asset_id, control_id, status, notes, status, notes)
UpsertParams(a, c, st, n) == <<a, c, st, n, st, n>>

Has(q, piece) == \E i \in DOMAIN q : q[i] = piece
Count(q, piece) == Cardinality({i \in DOMAIN q : q[i] = piece})
Replace(q, old, new) == [i \in DOMAIN q |-> IF q[i] = old THEN new ELSE q[i]]
Before(q, piece) ==
    SubSeq(q, 1, (CHOOSE i \in DOMAIN q : q[i] = piece /\ \A j \in 1..(i - 1) : q[j] # piece) - 1)

\* A rewrite that also takes the parameters: it keeps the four of the VALUES
\* list when it strips the update part
to_sqlite_params(q, params) ==
    IF Has(q, "ON DUPLICATE KEY UPDATE") /\ \E t \in CtlTables : Has(q, t)
    THEN SubSeq(params, 1, Count(Before(q, "ON DUPLICATE KEY UPDATE"), "%s"))
    ELSE params

\* The LOCAL branch of execute() passes params on as they are
local_params(q, params) == params

\* The LOCAL branch of execute(): the MySQL text rewritten for sqlite
to_sqlite(q) ==
    LET q1 == Replace(q, "%s", "?")
        q2 == Replace(q1, "NOW()", "datetime('now')")
        q3 == Replace(q2, "INSERT IGNORE", "INSERT OR IGNORE")
    IN IF Has(q3, "ON DUPLICATE KEY UPDATE") /\ \E t \in CtlTables : Has(q3, t)
       THEN Before(Replace(q3, "INSERT INTO", "INSERT OR REPLACE INTO"),
                   "ON DUPLICATE KEY UPDATE")
       ELSE q3

\* sqlite3 raises when the number of ? differs from the number of
\* parameters, and on MySQL's ON DUPLICATE KEY UPDATE
SqliteRaises(q, params) ==
    \/ Count(q, "?") # Len(params)
    \/ Has(q, "ON DUPLICATE KEY UPDATE")
    \/ Has(q, "%s")

\* The row of an INSERT ... (asset_id, control_id, status, notes) VALUES
RowOf(params) ==
    [asset_id |-> params[1], control_id |-> params[2], status |-> params[3],
     notes |-> params[4]]

SameLink(r, params) == r.asset_id = params[1] /\ r.control_id = params[2]

\* sqlite, PRIMARY KEY (asset_id, control_id): INSERT OR REPLACE deletes the
\* row with the key before it inserts; a plain INSERT on a taken key raises
SqliteInsert(tbl, q, params) ==
    LET kept == {i \in DOMAIN tbl : ~SameLink(tbl[i], params)}
        id == MaxOf(DOMAIN tbl) + 1
    IN IF q[1] = "INSERT OR REPLACE INTO"
       THEN [i \in kept \cup {id} |-> IF i = id THEN RowOf(params) ELSE tbl[i]]
       ELSE [i \in DOMAIN tbl \cup {id} |-> IF i = id THEN RowOf(params) ELSE tbl[i]]

\* MySQL, id INT AUTO_INCREMENT PRIMARY KEY and no other key: the inserted
\* row takes a fresh id, so no duplicate key arises and a row is added
MysqlUpsert(tbl, params) ==
    LET id == MaxOf(DOMAIN tbl) + 1
    IN [i \in DOMAIN tbl \cup {id} |-> IF i = id THEN RowOf(params) ELSE tbl[i]]

Assets == {1}
Controls == {5}
Statuses == {"Applicable", "Implemented"}
Notes == {""}

\* link_asset_control(asset_id, control_id, status, notes) and
\* link_asset_nist_control: one execute() of the upsert
LinkAssetControl ==
    /\ pc = "idle"
    /\ \E t \in CtlTables, a \in Assets, c \in Controls, st \in Statuses, n \in Notes,
          qfault \in BOOLEAN :
        LET q == UpsertQuery(t)
            params == UpsertParams(a, c, st, n)
            lq == to_sqlite(q)
            lp == local_params(q, params)
            x == execute(mode, secrets, reach, cloud_source, "q1", qfault,
                         SqliteRaises(lq, lp))
        IN /\ \A s2 \in Stores : Cardinality(DOMAIN ctl[s2][t]) < MaxLinks
           /\ mode' = x.mode
           /\ cloud_source' = x.source
           /\ probes' = x.probes
           /\ execLog' = x.log
           /\ execRet' = x.ret
           /\ ctl' = IF x.store = "NONE" THEN ctl
                     ELSE IF x.store = "LOCAL"
                     THEN [ctl EXCEPT !["LOCAL"][t] = SqliteInsert(@, lq, lp)]
                     ELSE [ctl EXCEPT ![x.store][t] = MysqlUpsert(@, params)]
           /\ linkRet' = [tbl |-> t, asset_id |-> a, control_id |-> c, status |-> st,
                          notes |-> n, ok |-> x.ret.val = "ok", store |-> x.store]
    /\ UNCHANGED <<secrets, reach, dataVars, syncVars>>
    /\ UNCHANGED <<unext, tunVars, bootVars, raceVars, txn, fwdVars, notLinkVars>>

\* The priorities of the ticket form, and two values outside the SLA table
Priorities == {"Critical", "High", "Medium", "Low", "critical", "Urgent"}

\* The database writes created_at from its own clock (NOW() in the server's
\* time zone, datetime('now') in UTC): the client's clock plus an offset
ClockOffsets == {0, 60}

\* An SLA table that gives an unknown priority the longest delay
calculate_sla_due_date_default_low(priority, now) ==
    now + (CASE priority = "Critical" -> 240
             [] priority = "High" -> 480
             [] priority = "Medium" -> 1440
             [] OTHER -> 4320)

\* calculate_sla_due_date: datetime.now() + timedelta(minutes=slas.get(priority, 1440))
calculate_sla_due_date(priority, now) ==
    now + (CASE priority = "Critical" -> 240
             [] priority = "High" -> 480
             [] priority = "Medium" -> 1440
             [] priority = "Low" -> 4320
             [] OTHER -> 1440)

\* Time passes on the client
Tick ==
    /\ clock < MaxClock
    /\ clock' = clock + 1
    /\ UNCHANGED <<secrets, reach, mode, cloud_source, probes, execVars, dataVars, syncVars>>
    /\ UNCHANGED <<unext, tunVars, bootVars, raceVars, txn, fwdVars, notSlaVars, due>>

\* create_ticket(..., priority, ...): the due date is computed first, then the
\* row is inserted as in CreateTicket; due is the row's priority and dates
CreateTicketDue ==
    /\ pc = "idle"
    /\ nextBody <= MaxBody
    /\ \E k \in Keys, p \in Priorities, off \in ClockOffsets :
        LET row == [k |-> k, b |-> nextBody]
            d == [priority |-> p, at |-> clock, created_at |-> clock + off,
                  due_date |-> calculate_sla_due_date(p, clock)]
        IN IF mode = "CLOUD"
           THEN LET r == get_cloud_conn(secrets, reach)
                IN /\ cloud_source' = SourceAfter(cloud_source, r)
                   /\ probes' = r.probes
                   /\ IF r.conn = "NONE"
                      THEN UNCHANGED <<cloud, rnext, due>>
                      ELSE /\ rnext[r.conn] <= MaxId
                           /\ cloud' = [cloud EXCEPT ![r.conn]["tickets"] =
                                            Put(@, rnext[r.conn], row)]
                           /\ rnext' = [rnext EXCEPT ![r.conn] = @ + 1]
                           /\ due' = d
                   /\ UNCHANGED <<local, offline>>
           ELSE /\ LocalNextId(local["tickets"]) <= MaxId
                /\ local' = [local EXCEPT !["tickets"] = Put(@, LocalNextId(@), row)]
                /\ offline' = offline \cup {row}
                /\ due' = d
                /\ NoProbe
                /\ UNCHANGED <<cloud, rnext, cloud_source>>
    /\ nextBody' = nextBody + 1
    /\ NoExec
    /\ UNCHANGED <<secrets, reach, mode, syncVars>>
    /\ UNCHANGED <<unext, tunVars, bootVars, raceVars, txn, fwdVars, notSlaVars, clock>>

\* create_ticket(): CLOUD inserts on the resolved instance (None: return
\* None); otherwise inserts into sqlite
CreateTicket ==
    /\ pc = "idle"
    /\ nextBody <= MaxBody
    /\ \E k \in Keys :
        LET row == [k |-> k, b |-> nextBody]
        IN IF mode = "CLOUD"
           THEN LET r == get_cloud_conn(secrets, reach)
                IN /\ cloud_source' = SourceAfter(cloud_source, r)
                   /\ probes' = r.probes
                   /\ IF r.conn = "NONE"
                      THEN UNCHANGED <<cloud, rnext>>
                      ELSE /\ rnext[r.conn] <= MaxId
                           /\ cloud' = [cloud EXCEPT ![r.conn]["tickets"] =
                                            Put(@, rnext[r.conn], row)]
                           /\ rnext' = [rnext EXCEPT ![r.conn] = @ + 1]
                   /\ UNCHANGED <<local, offline>>
           ELSE /\ LocalNextId(local["tickets"]) <= MaxId
                /\ local' = [local EXCEPT !["tickets"] = Put(@, LocalNextId(@), row)]
                /\ offline' = offline \cup {row}
                /\ NoProbe
                /\ UNCHANGED <<cloud, rnext, cloud_source>>
    /\ nextBody' = nextBody + 1
    /\ NoExec
    /\ UNCHANGED <<secrets, reach, mode, syncVars>>
    /\ UNCHANGED <<unext, tunVars, extVars>>

\* Rows of ticket_attachments over the three stores (bounded by MaxAttach)
AttachCount ==
    Cardinality(DOMAIN local["ticket_attachments"])
    + Cardinality(DOMAIN cloud["PRIMARY"]["ticket_attachments"])
    + Cardinality(DOMAIN cloud["BACKUP"]["ticket_attachments"])

\* save_attachment(ticket_id, file): the file is written, then the
\* ticket_attachments row is inserted through execute()
SaveAttachment ==
    /\ pc = "idle"
    /\ \E qfault \in BOOLEAN, lfault \in BOOLEAN :
       \E tid \in IF mode = "CLOUD" /\ cloud_source # "NONE"
                  THEN DOMAIN cloud[cloud_source]["tickets"]
                  ELSE DOMAIN local["tickets"] :
        LET tk == IF mode = "CLOUD" /\ cloud_source # "NONE"
                  THEN cloud[cloud_source]["tickets"][tid]
                  ELSE local["tickets"][tid]
            row == [k |-> tid, b |-> tk.b]
            x == execute(mode, secrets, reach, cloud_source, "q1", qfault, lfault)
        IN /\ mode' = x.mode
           /\ cloud_source' = x.source
           /\ probes' = x.probes
           /\ execLog' = x.log
           /\ execRet' = x.ret
           /\ x.store # "NONE" => AttachCount < MaxAttach
           /\ cloud' = IF x.store \in Endpoints
                       THEN [cloud EXCEPT ![x.store]["ticket_attachments"] =
                                Put(@, LocalNextId(@), row)]
                       ELSE cloud
           /\ local' = IF x.store = "LOCAL"
                       THEN [local EXCEPT !["ticket_attachments"] =
                                Put(@, LocalNextId(@), row)]
                       ELSE local
    /\ UNCHANGED <<secrets, reach, rnext, offline, nextBody, syncVars>>
    /\ UNCHANGED <<unext, tunVars, extVars>>

\* sync_files(): touches only the two storage directories
SyncFilesOp ==
    /\ pc = "idle"
    /\ fs' = sync_files(fs, cfgFile).fs
    /\ filesRet' = IF sync_files(fs, cfgFile).ok THEN "ok" ELSE "fail"
    /\ NoExec /\ NoProbe
    /\ UNCHANGED <<secrets, reach, mode, cloud_source, dataVars, syncVars>>
    /\ UNCHANGED <<unext, tunVars, bootVars, raceVars, txn, fwdVars, notFileVars, cfgFile>>

\* set_storage_config(local_path, network_path), from the settings page
SetStorageConfig ==
    /\ pc = "idle"
    /\ \E l \in Paths, n \in Paths : cfgFile' = set_storage_config(cfgFile, l, n)
    /\ NoExec /\ NoProbe
    /\ UNCHANGED <<secrets, reach, mode, cloud_source, dataVars, syncVars>>
    /\ UNCHANGED <<unext, tunVars, bootVars, raceVars, txn, fwdVars, notFileVars, fs, filesRet>>

\* ------------------------------------------------------------ construction
\* Before DatabaseManager() is called: mode "PENDING", no source, and a
\* local_cache.db that may or may not have its tables
Built == mode # "PENDING"

\* A constructor that, as its docstring says, does not sync when connected
ConstructWithoutSync ==
    /\ mode = "PENDING"
    /\ LET r == get_cloud_conn(secrets, reach)
       IN /\ cloud_source' = SourceAfter(cloud_source, r)
          /\ probes' = r.probes
          /\ IF test_cloud_connection(secrets, reach)
             THEN mode' = "CLOUD" /\ UNCHANGED schema
             ELSE mode' = "LOCAL" /\ schema' = TRUE
    /\ raised' = TestCloudConnectionRaises(cfgOk)
    /\ NoExec
    /\ UNCHANGED <<secrets, reach, dataVars, syncVars>>
    /\ UNCHANGED <<unext, tunVars, cfgOk, raceVars, txn, fwdVars, appVars>>

\* __init__: probe; CLOUD and sync() (entered here: _sync_schema has run, the
\* steps of _sync_data follow) when a remote answers, otherwise LOCAL and
\* _ensure_local_schema
Construct ==
    /\ mode = "PENDING"
    /\ LET r == get_cloud_conn(secrets, reach)
       IN /\ cloud_source' = SourceAfter(cloud_source, r)
          /\ probes' = r.probes
          /\ IF test_cloud_connection(secrets, reach)
             THEN mode' = "CLOUD" /\ pc' = "push"
             ELSE mode' = "LOCAL" /\ UNCHANGED pc
    /\ schema' = TRUE
    /\ raised' = TestCloudConnectionRaises(cfgOk)
    /\ NoExec
    /\ UNCHANGED <<secrets, reach, dataVars, pullIdx, pullConn, syncLog, syncRet>>
    /\ UNCHANGED <<unext, tunVars, cfgOk, raceVars, txn, fwdVars, appVars>>

\* Calls made on the constructed manager
BootSyncBegin == Built /\ SyncBegin
BootReconnect == Built /\ Reconnect
BootExecute == Built /\ Execute

\* ------------------------------------- the push, statement by statement
\* _push_local_tickets as the statements it issues.  txn.L, txn.A: the local
\* tickets and attachments as the push's own sqlite connection sees them
\* (its uncommitted UPDATEs included); txn.R, txn.N: the cloud tickets and
\* AUTO_INCREMENT counter inside its MySQL transaction.  Every other
\* connection reads `local`, the committed cache.
PushEnds(out, c) ==
    /\ txn' = NoTxn
    /\ syncLog' = Append(syncLog, [phase |-> "push", tbl |-> "tickets", out |-> out,
                                   conn |-> c])
    /\ pc' = "files"

\* Lines 849-858: both connections are opened and the local tickets are read;
\* a None cloud connection raises at cloud_conn.cursor
PushOpen ==
    /\ pc = "push"
    /\ ~txn.on
    /\ rnext["PRIMARY"] + Cardinality(DOMAIN local["tickets"]) <= MaxId + 1
    /\ LET r == get_cloud_conn(secrets, reach)
       IN /\ cloud_source' = SourceAfter(cloud_source, r)
          /\ probes' = r.probes
          /\ IF r.conn = "NONE"
             THEN PushEnds("failed", "NONE")
             ELSE /\ txn' = [on |-> TRUE, conn |-> r.conn,
                             todo |-> DOMAIN local["tickets"], snap |-> local["tickets"],
                             L |-> local["tickets"], A |-> local["ticket_attachments"],
                             R |-> cloud[r.conn]["tickets"], N |-> rnext[r.conn], cnt |-> 0,
                             stage |-> "loop", old |-> 0, new |-> 0]
                  /\ UNCHANGED <<pc, syncLog>>
    /\ NoExec
    /\ UNCHANGED <<secrets, reach, mode, dataVars, pullIdx, pullConn, syncRet>>
    /\ UNCHANGED <<unext, tunVars, bootVars, raceVars, fwdVars, appVars>>

\* A push whose local connection is in autocommit mode: the UPDATE of the
\* ticket's id is visible to other connections as soon as it is executed
PushTicketAutocommit ==
    /\ pc = "push"
    /\ txn.on /\ txn.stage = "loop" /\ txn.todo # {}
    /\ LET old == MinOf(txn.todo)
           t == txn.snap[old]
       IN /\ ~ExistsInCloud(txn.R, t)
          /\ ~(txn.N # old /\ txn.N \in DOMAIN txn.L)
          /\ txn' = [txn EXCEPT !.R = Put(@, txn.N, t), !.N = @ + 1,
                                !.L = Rekey(@, old, txn.N),
                                !.stage = "att", !.old = old, !.new = txn.N]
          /\ local' = [local EXCEPT !["tickets"] = Rekey(txn.L, old, txn.N)]
    /\ NoExec /\ NoProbe
    /\ UNCHANGED <<secrets, reach, mode, cloud_source, cloud, rnext, offline, nextBody,
                   syncVars>>
    /\ UNCHANGED <<unext, tunVars, bootVars, raceVars, fwdVars, appVars>>

\* Lines 862-884: one ticket of the loop: the check, and for a ticket not on
\* the cloud the INSERT there and "UPDATE tickets SET id = new WHERE id = old"
\* here, which raises when another local row has the new id
PushTicket ==
    /\ pc = "push"
    /\ txn.on /\ txn.stage = "loop" /\ txn.todo # {}
    /\ LET old == MinOf(txn.todo)
           t == txn.snap[old]
       IN IF ExistsInCloud(txn.R, t)
          THEN /\ txn' = [txn EXCEPT !.todo = @ \ {old}]
               /\ UNCHANGED <<rnext, pc, syncLog>>
          ELSE IF txn.N # old /\ txn.N \in DOMAIN txn.L
               THEN /\ rnext' = [rnext EXCEPT ![txn.conn] = txn.N + 1]
                    /\ PushEnds("failed", txn.conn)
               ELSE /\ txn' = [txn EXCEPT !.R = Put(@, txn.N, t), !.N = @ + 1,
                                          !.L = Rekey(@, old, txn.N),
                                          !.stage = "att", !.old = old, !.new = txn.N]
                    /\ UNCHANGED <<rnext, pc, syncLog>>
    /\ NoExec /\ NoProbe
    /\ UNCHANGED <<secrets, reach, mode, cloud_source, local, cloud, offline, nextBody,
                   pullIdx, pullConn, syncRet>>
    /\ UNCHANGED <<unext, tunVars, bootVars, raceVars, fwdVars, appVars>>

\* Line 885: "UPDATE ticket_attachments SET ticket_id = new WHERE ticket_id = old"
PushAttach ==
    /\ pc = "push"
    /\ txn.on /\ txn.stage = "att"
    /\ txn' = [txn EXCEPT !.A = Remap(@, txn.old, txn.new), !.todo = @ \ {txn.old},
                          !.cnt = @ + 1, !.stage = "loop", !.old = 0, !.new = 0]
    /\ NoExec /\ NoProbe
    /\ UNCHANGED <<secrets, reach, mode, cloud_source, dataVars, syncVars>>
    /\ UNCHANGED <<unext, tunVars, bootVars, raceVars, fwdVars, appVars>>

\* Lines 889-898: cloud_conn.commit() and local_conn.commit() when a ticket
\* was pushed; both connections are closed
PushCommit ==
    /\ pc = "push"
    /\ txn.on /\ txn.stage = "loop" /\ txn.todo = {}
    /\ IF txn.cnt > 0
       THEN /\ cloud' = [cloud EXCEPT ![txn.conn]["tickets"] = txn.R]
            /\ rnext' = [rnext EXCEPT ![txn.conn] = txn.N]
            /\ local' = [local EXCEPT !["tickets"] = txn.L,
                                      !["ticket_attachments"] = txn.A]
       ELSE UNCHANGED <<cloud, rnext, local>>
    /\ PushEnds("ok", txn.conn)
    /\ NoExec /\ NoProbe
    /\ UNCHANGED <<secrets, reach, mode, cloud_source, offline, nextBody,
                   pullIdx, pullConn, syncRet>>
    /\ UNCHANGED <<unext, tunVars, bootVars, raceVars, fwdVars, appVars>>

\* Lines 889-892 when a commit raises.  cloud_conn.commit() fails (the
\* connection was lost): neither side is committed.  local_conn.commit()
\* fails (the cache is locked by another connection, or cannot be written):
\* the cloud transaction is already committed, the local one is not.
PushCommitRaises ==
    /\ pc = "push"
    /\ txn.on /\ txn.stage = "loop" /\ txn.todo = {}
    /\ txn.cnt > 0
    /\ \E failing \in {"cloud", "local"} :
          IF failing = "cloud"
          THEN /\ rnext' = [rnext EXCEPT ![txn.conn] = txn.N]
               /\ UNCHANGED cloud
          ELSE /\ cloud' = [cloud EXCEPT ![txn.conn]["tickets"] = txn.R]
               /\ rnext' = [rnext EXCEPT ![txn.conn] = txn.N]
    /\ UNCHANGED local
    /\ PushEnds("failed", txn.conn)
    /\ NoExec /\ NoProbe
    /\ UNCHANGED <<secrets, reach, mode, cloud_source, offline, nextBody,
                   pullIdx, pullConn, syncRet>>
    /\ UNCHANGED <<unext, tunVars, bootVars, raceVars, fwdVars, appVars>>

\* ------------------------------------------------- a second sync() call
\* sync() has no lock and no in-progress flag: a call made on another thread
\* (another script run holding the same manager, or another session's manager
\* on the same local_cache.db) runs the same statements on the same cache.
\* The actions below are the steps of SyncBegin .. SyncReturn for that call.
Sync2Begin ==
    /\ pc2 = "idle"
    /\ IF mode = "CLOUD"
       THEN /\ pc2' = "push"
            /\ NoProbe
            /\ UNCHANGED <<mode, cloud_source>>
       ELSE LET r == get_cloud_conn(secrets, reach)
            IN /\ cloud_source' = SourceAfter(cloud_source, r)
               /\ probes' = r.probes
               /\ IF test_cloud_connection(secrets, reach)
                  THEN mode' = "CLOUD" /\ pc2' = "push"
                  ELSE UNCHANGED mode /\ pc2' = "done"
    /\ NoExec
    /\ UNCHANGED <<secrets, reach, dataVars, syncVars, pullIdx2, pullConn2>>
    /\ UNCHANGED <<unext, tunVars, bootVars, txn, fwdVars, appVars>>

Sync2Push ==
    /\ pc2 = "push"
    /\ rnext["PRIMARY"] + Cardinality(DOMAIN local["tickets"]) <= MaxId + 1
    /\ rnext["BACKUP"] + Cardinality(DOMAIN local["tickets"]) <= MaxId + 1
    /\ LET r == get_cloud_conn(secrets, reach)
           p == push_local_tickets(local, cloud, rnext, r.conn)
       IN /\ cloud_source' = SourceAfter(cloud_source, r)
          /\ probes' = r.probes
          /\ local' = p.local
          /\ cloud' = p.cloud
          /\ rnext' = p.rnext
    /\ pc2' = "files"
    /\ NoExec
    /\ UNCHANGED <<secrets, reach, mode, offline, nextBody, syncVars, pullIdx2, pullConn2>>
    /\ UNCHANGED <<unext, tunVars, bootVars, txn, fwdVars, appVars>>

Sync2Files ==
    /\ pc2 = "files"
    /\ pc2' = "connect"
    /\ NoExec /\ NoProbe
    /\ fs' = sync_files(fs, cfgFile).fs
    /\ UNCHANGED <<secrets, reach, mode, cloud_source, dataVars, syncVars,
                   pullIdx2, pullConn2>>
    /\ UNCHANGED <<unext, tunVars, bootVars, txn, fwdVars, notFileVars, cfgFile, filesRet>>

Sync2Connect ==
    /\ pc2 = "connect"
    /\ LET r == get_cloud_conn(secrets, reach)
       IN /\ cloud_source' = SourceAfter(cloud_source, r)
          /\ probes' = r.probes
          /\ IF r.conn = "NONE"
             THEN pc2' = "done" /\ UNCHANGED <<pullIdx2, pullConn2>>
             ELSE pc2' = "pull" /\ pullIdx2' = 1 /\ pullConn2' = r.conn
    /\ NoExec
    /\ UNCHANGED <<secrets, reach, mode, dataVars, syncVars>>
    /\ UNCHANGED <<unext, tunVars, bootVars, txn, fwdVars, appVars>>

Sync2PullTable ==
    /\ pc2 = "pull"
    /\ pullIdx2 <= Len(PullTables)
    /\ \E failed \in BOOLEAN :
        LET tbl == PullTables[pullIdx2]
            rows == cloud[pullConn2][tbl]
            out == PullOutcome(rows, failed)
        IN local' = IF out = "ok"
                    THEN [local EXCEPT ![tbl] = InsertOrReplace(@, rows)]
                    ELSE local
    /\ pullIdx2' = pullIdx2 + 1
    /\ NoExec /\ NoProbe
    /\ UNCHANGED <<secrets, reach, mode, cloud_source,
                   cloud, rnext, offline, nextBody, syncVars, pc2, pullConn2>>
    /\ UNCHANGED <<unext, tunVars, bootVars, txn, fwdVars, appVars>>

Sync2End ==
    /\ pc2 = "pull"
    /\ pullIdx2 > Len(PullTables)
    /\ pc2' = "done"
    /\ NoExec /\ NoProbe
    /\ UNCHANGED <<secrets, reach, mode, cloud_source, dataVars, syncVars,
                   pullIdx2, pullConn2>>
    /\ UNCHANGED <<unext, tunVars, bootVars, txn, fwdVars, appVars>>

Sync2Return ==
    /\ pc2 = "done"
    /\ pc2' = "idle"
    /\ pullIdx2' = 1
    /\ pullConn2' = "NONE"
    /\ NoExec /\ NoProbe
    /\ UNCHANGED <<secrets, reach, mode, cloud_source, dataVars, syncVars>>
    /\ UNCHANGED <<unext, tunVars, bootVars, txn, fwdVars, appVars>>

\* ------------------------------------------------------------ replication
\* REPLACE INTO: a source row overwrites the target row of its key
ReplaceInto(todo, src, tgt, uniq) ==
    [i \in DOMAIN tgt \cup todo |-> IF i \in todo THEN src[i] ELSE tgt[i]]

\* A bulk insert that stops after the first row it inserted
InsertFirstMissing(todo, src, tgt, uniq) ==
    LET new == {i \in todo : i \notin DOMAIN tgt
                             /\ ~(uniq /\ \E j \in DOMAIN tgt : tgt[j].k = src[i].k)}
    IN IF new = {} THEN tgt ELSE Put(tgt, MinOf(new), src[MinOf(new)])

\* INSERT IGNORE INTO tbl ... for the source rows `todo`, in key order: a row
\* is dropped when its primary key, or (uniq) its UNIQUE column, is already
\* on the target
RECURSIVE InsertIgnore(_, _, _, _)
InsertIgnore(todo, src, tgt, uniq) ==
    IF todo = {} THEN tgt
    ELSE LET i == MinOf(todo)
             dup == \/ i \in DOMAIN tgt
                    \/ uniq /\ \E j \in DOMAIN tgt : tgt[j].k = src[i].k
         IN InsertIgnore(todo \ {i}, src, IF dup THEN tgt ELSE Put(tgt, i, src[i]), uniq)

\* AUTO_INCREMENT after rows with explicit ids were inserted
AutoIncAfter(n, tbl) == IF MaxOf(DOMAIN tbl) + 1 > n THEN MaxOf(DOMAIN tbl) + 1 ELSE n

Directions == {"PRIMARY_TO_SECONDARY", "SECONDARY_TO_PRIMARY"}
SourceOf(dir) == IF dir = "PRIMARY_TO_SECONDARY" THEN "PRIMARY" ELSE "BACKUP"
TargetOf(dir) == IF dir = "PRIMARY_TO_SECONDARY" THEN "BACKUP" ELSE "PRIMARY"

\* A replication that ignores the direction asked for: always primary to backup
replicate_cloud_db_fixed_direction(sec, rch, C, dir, tables, failTbls) ==
    LET list == IF tables = {} THEN CloudTables ELSE tables
        ok == sec.mysql /\ sec.mysql_backup /\ rch["PRIMARY"] /\ rch["BACKUP"]
    IN [ok |-> ok,
        cloud |-> IF ~ok THEN C
                  ELSE [C EXCEPT !["BACKUP"] =
                          [t \in CloudTables |->
                              IF t \in list \ failTbls
                              THEN InsertIgnore(DOMAIN C["PRIMARY"][t], C["PRIMARY"][t],
                                                C["BACKUP"][t], t \in UniqueKeyTables)
                              ELSE C["BACKUP"][t]]]]

\* replicate_cloud_db(direction, tables).  tables = {}: the list is taken
\* from the source (get_tables).  failTbls: tables whose fetch or insert
\* raises (for one, a table missing on the target).  Nothing is written
\* unless both instances are configured and both connects succeed.
replicate_cloud_db(sec, rch, C, dir, tables, failTbls) ==
    LET src == SourceOf(dir)
        tgt == TargetOf(dir)
        list == IF tables = {} THEN CloudTables ELSE tables
        ok == sec.mysql /\ sec.mysql_backup /\ rch[src] /\ rch[tgt]
    IN [ok |-> ok,
        cloud |-> IF ~ok THEN C
                  ELSE [C EXCEPT ![tgt] =
                          [t \in CloudTables |->
                              IF t \in list \ failTbls
                              THEN InsertIgnore(DOMAIN C[src][t], C[src][t], C[tgt][t],
                                                t \in UniqueKeyTables)
                              ELSE C[tgt][t]]]]

\* The table lists tried: none given (every table of the source), one
\* table, two tables; at most one table fails in a run
ReplTables == {"assets", "companion_users"}
TableLists == {{}} \cup {{t} : t \in ReplTables} \cup {ReplTables}
FailLists == {{}} \cup {{t} : t \in ReplTables}

\* A table list that is fixed in the program instead of read from the source
get_tables_fixed(ab, src) == CloudTables

\* get_tables(source): SHOW TABLES on the source instance
get_tables(ab, src) == CloudTables \ ab[src]

\* replicate_cloud_db with the schema of the two instances in view (ab: the
\* tables missing on each).  An omitted list is read from the source; a
\* failed listing or an empty one returns failure before anything is
\* written.  In the table loop a table raises when it is in failTbls, when
\* it is missing on the source (the SELECT raises) or when it has source
\* rows and is missing on the target (the INSERT raises); a table without
\* source rows is skipped by "continue"; the others are inserted and
\* counted.  ok and count are the success flag and the number in the message
\* returned; named: the tables that message names as failed; list and errs:
\* the tables the loop went through and those that raised in it.
replicate(sec, rch, C, ab, dir, tables, failTbls) ==
    LET src == SourceOf(dir)
        tgt == TargetOf(dir)
        configured == sec.mysql /\ sec.mysql_backup
        list == IF tables = {} THEN get_tables(ab, src) ELSE tables
        listed == tables # {} \/ (rch[src] /\ list # {})
        ok == configured /\ listed /\ rch[src] /\ rch[tgt]
        errs == {t \in list : t \in failTbls \/ t \in ab[src]
                                \/ (DOMAIN C[src][t] # {} /\ t \in ab[tgt])}
        skipped == {t \in list \ errs : DOMAIN C[src][t] = {}}
    IN [ok |-> ok,
        cloud |-> IF ok THEN replicate_cloud_db(sec, rch, C, dir, list, errs).cloud ELSE C,
        count |-> IF ok THEN Cardinality(list \ (errs \cup skipped)) ELSE 0,
        named |-> {},
        list |-> IF ok THEN list ELSE {},
        errs |-> IF ok THEN errs ELSE {}]

ReplicateCloudDb ==
    /\ pc = "idle"
    /\ \E dir \in Directions, tables \in TableLists, failTbls \in FailLists :
        LET x == replicate(secrets, reach, cloud, absent, dir, tables, failTbls)
            tgt == TargetOf(dir)
        IN /\ failTbls \subseteq (IF tables = {} THEN CloudTables ELSE tables)
           /\ cloud' = x.cloud
           /\ rnext' = [rnext EXCEPT ![tgt] = AutoIncAfter(@, x.cloud[tgt]["tickets"])]
           /\ unext' = IF tgt = secrets.vps
                       THEN AutoIncAfter(unext, x.cloud[tgt]["companion_users"])
                       ELSE unext
    /\ NoExec /\ NoProbe
    /\ UNCHANGED <<secrets, reach, mode, cloud_source, local, offline, nextBody,
                   syncVars>>
    /\ UNCHANGED <<tunVars, bootVars, raceVars, txn, fwdVars, notReplVars, absent>>

\* --------------------------------------------------------- companion users
Usernames == {1}

\* A VPS connection that falls back to whatever _get_cloud_conn finds
get_vps_conn_or_cloud(sec, rch) ==
    IF sec.vps # "NONE" /\ rch[sec.vps] THEN sec.vps ELSE get_cloud_conn(sec, rch).conn

\* _get_vps_conn: the configured entry whose host is the VPS, if it answers
get_vps_conn(sec, rch) == IF sec.vps # "NONE" /\ rch[sec.vps] THEN sec.vps ELSE "NONE"

\* add_companion_user: refused when the username exists
AddCompanionUser ==
    /\ pc = "idle"
    /\ \E u \in Usernames :
        LET e == get_vps_conn(secrets, reach)
        IN IF e = "NONE" \/ \E j \in DOMAIN cloud[e]["companion_users"] :
                                cloud[e]["companion_users"][j].k = u
           THEN UNCHANGED <<cloud, unext>>
           ELSE /\ unext <= MaxUid
                /\ cloud' = [cloud EXCEPT ![e]["companion_users"] =
                                Put(@, unext, [k |-> u, b |-> unext])]
                /\ unext' = unext + 1
    /\ NoExec /\ NoProbe
    /\ UNCHANGED <<secrets, reach, mode, cloud_source, local, rnext, offline, nextBody,
                   syncVars>>
    /\ UNCHANGED <<tunVars, extVars>>

\* delete_companion_user: DELETE ... WHERE username=%s LIMIT 1
DeleteCompanionUser ==
    /\ pc = "idle"
    /\ \E u \in Usernames :
        LET e == get_vps_conn(secrets, reach)
        IN IF e = "NONE" \/ ~\E j \in DOMAIN cloud[e]["companion_users"] :
                                cloud[e]["companion_users"][j].k = u
           THEN UNCHANGED cloud
           ELSE LET j == MinOf({i \in DOMAIN cloud[e]["companion_users"] :
                                    cloud[e]["companion_users"][i].k = u})
                IN /\ cloud' = [cloud EXCEPT ![e]["companion_users"] = Drop(@, j)]
    /\ NoExec /\ NoProbe
    /\ UNCHANGED <<secrets, reach, mode, cloud_source, local, rnext, offline, nextBody,
                   syncVars>>
    /\ UNCHANGED <<unext, tunVars, extVars>>

\* get_companion_users: the rows on the VPS, [] without a VPS connection
get_companion_users(sec, rch, C) ==
    LET e == get_vps_conn(sec, rch)
    IN IF e = "NONE" THEN EmptyTable ELSE C[e]["companion_users"]

\* The other columns of a companion_users row (is_active, password_hash)
UserBodies == 0..MaxUid

\* UPDATE companion_users SET col = v WHERE username = u, on connection e
UpdateUser(C, e, u, v) ==
    IF e = "NONE" THEN C
    ELSE [C EXCEPT ![e]["companion_users"] =
             [j \in DOMAIN @ |-> IF @[j].k = u THEN [k |-> u, b |-> v] ELSE @[j]]]

\* update_companion_user_status: UPDATE ... SET is_active=%s WHERE username=%s
UpdateCompanionUserStatus ==
    /\ pc = "idle"
    /\ \E u \in Usernames, v \in UserBodies :
          cloud' = UpdateUser(cloud, get_vps_conn(secrets, reach), u, v)
    /\ NoExec /\ NoProbe
    /\ UNCHANGED <<secrets, reach, mode, cloud_source, local, rnext, offline, nextBody,
                   syncVars>>
    /\ UNCHANGED <<unext, tunVars, extVars>>

\* update_companion_user_password: UPDATE ... SET password_hash=%s WHERE
\* username=%s; (False, ...) when no row was changed
UpdateCompanionUserPassword ==
    /\ pc = "idle"
    /\ \E u \in Usernames, v \in UserBodies :
          cloud' = UpdateUser(cloud, get_vps_conn(secrets, reach), u, v)
    /\ NoExec /\ NoProbe
    /\ UNCHANGED <<secrets, reach, mode, cloud_source, local, rnext, offline, nextBody,
                   syncVars>>
    /\ UNCHANGED <<unext, tunVars, extVars>>

\* ------------------------------------------------------- tunnel handling
restVars == <<secrets, reach, mode, cloud_source, probes, execVars, dataVars, syncVars,
              unext>>

\* The caller threads
Threads == DOMAIN tpc

OtherHost(h) == IF h = "VPS" THEN "OTHER" ELSE "VPS"

\* SSHTunnel.__init__
NewTunnel(h) == [host |-> h, client |-> 0, local_port |-> 0, stopped |-> FALSE]

\* SSHTunnel.stop on tunnels[i]: the stop event is set, which ends the forward
\* loop of every socket of the object, and the current client is closed
StopTunnel(T, X, S, i) ==
    [tunnels |-> [T EXCEPT ![i].stopped = TRUE],
     transports |-> IF T[i].client # 0 THEN [X EXCEPT ![T[i].client].open = FALSE] ELSE X,
     sockets |-> [j \in DOMAIN S |->
                    IF S[j].tunnel = i THEN [S[j] EXCEPT !.listening = FALSE] ELSE S[j]]]

\* _connect_to_source for a config routed through SSH: the test
\* "not self.ssh_tunnel or self.ssh_tunnel.ssh_host != ssh_conf['host']"
ConnCheck(t) ==
    /\ tpc[t] = "idle"
    /\ tpc' = [tpc EXCEPT ![t] = IF ssh_tunnel = 0 \/ tunnels[ssh_tunnel].host # ssh_host
                                 THEN "stop" ELSE "use"]
    /\ UNCHANGED <<ssh_host, sshUp, tunnels, transports, sockets, ssh_tunnel,
                   ssh_local_port, tobj, tloc, tres>>
    /\ UNCHANGED <<restVars, extVars>>

\* _get_vps_conn when the [ssh] host is the VPS: the test "not self.ssh_tunnel"
VpsCheck(t) ==
    /\ tpc[t] = "idle"
    /\ ssh_host = "VPS"
    /\ tpc' = [tpc EXCEPT ![t] = IF ssh_tunnel = 0 THEN "new" ELSE "use"]
    /\ UNCHANGED <<ssh_host, sshUp, tunnels, transports, sockets, ssh_tunnel,
                   ssh_local_port, tobj, tloc, tres>>
    /\ UNCHANGED <<restVars, extVars>>

\* _connect_to_source: "if self.ssh_tunnel: self.ssh_tunnel.stop()"
ConnStop(t) ==
    /\ tpc[t] = "stop"
    /\ LET r == IF ssh_tunnel # 0
                THEN StopTunnel(tunnels, transports, sockets, ssh_tunnel)
                ELSE [tunnels |-> tunnels, transports |-> transports, sockets |-> sockets]
       IN /\ tunnels' = r.tunnels
          /\ transports' = r.transports
          /\ sockets' = r.sockets
    /\ tpc' = [tpc EXCEPT ![t] = "new"]
    /\ UNCHANGED <<ssh_host, sshUp, ssh_tunnel, ssh_local_port, tobj, tloc, tres>>
    /\ UNCHANGED <<restVars, extVars>>

\* self.ssh_tunnel = SSHTunnel(ssh_host=..., ...)
ConnNew(t) ==
    /\ tpc[t] = "new"
    /\ Len(tunnels) < MaxTunnels
    /\ tunnels' = Append(tunnels, NewTunnel(ssh_host))
    /\ ssh_tunnel' = Len(tunnels) + 1
    /\ tpc' = [tpc EXCEPT ![t] = "start"]
    /\ UNCHANGED <<ssh_host, sshUp, transports, sockets, ssh_local_port, tobj, tloc, tres>>
    /\ UNCHANGED <<restVars, extVars>>

\* self.ssh_tunnel.start(), first half: the attribute is read now, a new
\* SSHClient is created and connected; a refused connect raises out of the call
StartConnect(t) ==
    /\ tpc[t] = "start"
    /\ IF sshUp
       THEN /\ transports' = Append(transports,
                                    [host |-> tunnels[ssh_tunnel].host, open |-> TRUE])
            /\ tunnels' = [tunnels EXCEPT ![ssh_tunnel].client = Len(transports) + 1]
            /\ tobj' = [tobj EXCEPT ![t] = ssh_tunnel]
            /\ tpc' = [tpc EXCEPT ![t] = "bind"]
            /\ UNCHANGED tres
       ELSE /\ tpc' = [tpc EXCEPT ![t] = "done"]
            /\ tres' = [tres EXCEPT ![t] = 0]
            /\ UNCHANGED <<transports, tunnels, tobj>>
    /\ UNCHANGED <<ssh_host, sshUp, sockets, ssh_tunnel, ssh_local_port, tloc>>
    /\ UNCHANGED <<restVars, extVars>>

\* start(), second half: a new socket is bound to a free port and handed to
\* a forward-loop thread, which serves it while the stop event is not set
StartBind(t) ==
    /\ tpc[t] = "bind"
    /\ sockets' = Append(sockets, [tunnel |-> tobj[t],
                                   listening |-> ~tunnels[tobj[t]].stopped])
    /\ tunnels' = [tunnels EXCEPT ![tobj[t]].local_port = Len(sockets) + 1]
    /\ tloc' = [tloc EXCEPT ![t] = Len(sockets) + 1]
    /\ tpc' = [tpc EXCEPT ![t] = "assign"]
    /\ UNCHANGED <<ssh_host, sshUp, transports, ssh_tunnel, ssh_local_port, tobj, tres>>
    /\ UNCHANGED <<restVars, extVars>>

\* self.ssh_local_port = <value returned by start()>
AssignPort(t) ==
    /\ tpc[t] = "assign"
    /\ ssh_local_port' = tloc[t]
    /\ tpc' = [tpc EXCEPT ![t] = "use"]
    /\ UNCHANGED <<ssh_host, sshUp, tunnels, transports, sockets, ssh_tunnel,
                   tobj, tloc, tres>>
    /\ UNCHANGED <<restVars, extVars>>

\* mysql.connector.connect(host='127.0.0.1', port=self.ssh_local_port)
ConnUse(t) ==
    /\ tpc[t] = "use"
    /\ tres' = [tres EXCEPT ![t] = ssh_local_port]
    /\ tpc' = [tpc EXCEPT ![t] = "done"]
    /\ UNCHANGED <<ssh_host, sshUp, tunnels, transports, sockets, ssh_tunnel,
                   ssh_local_port, tobj, tloc>>
    /\ UNCHANGED <<restVars, extVars>>

\* The call has returned to its caller
ConnReturn(t) ==
    /\ tpc[t] = "done"
    /\ tpc' = [tpc EXCEPT ![t] = "idle"]
    /\ tobj' = [tobj EXCEPT ![t] = 0]
    /\ tloc' = [tloc EXCEPT ![t] = 0]
    /\ tres' = [tres EXCEPT ![t] = 0]
    /\ UNCHANGED <<ssh_host, sshUp, tunnels, transports, sockets, ssh_tunnel,
                   ssh_local_port>>
    /\ UNCHANGED <<restVars, extVars>>

TunnelCheck == \E t \in Threads : ConnCheck(t)
TunnelVpsCheck == \E t \in Threads : VpsCheck(t)
TunnelStop == \E t \in Threads : ConnStop(t)
TunnelNew == \E t \in Threads : ConnNew(t)
TunnelStartConnect == \E t \in Threads : StartConnect(t)
TunnelStartBind == \E t \in Threads : StartBind(t)
TunnelAssignPort == \E t \in Threads : AssignPort(t)
TunnelUse == \E t \in Threads : ConnUse(t)
TunnelReturn == \E t \in Threads : ConnReturn(t)

\* "System Reload": st.session_state.db_manager = DatabaseManager().  The new
\* object starts with ssh_tunnel = None; nothing stops the old object's tunnel
SystemReload ==
    /\ \A t \in Threads : tpc[t] = "idle"
    /\ ssh_tunnel # 0
    /\ ssh_tunnel' = 0
    /\ ssh_local_port' = 0
    /\ UNCHANGED <<ssh_host, sshUp, tunnels, transports, sockets, tpc, tobj, tloc, tres>>
    /\ UNCHANGED <<restVars, extVars>>

\* The [ssh] section of the secrets is edited between two calls
HostChange ==
    /\ \A t \in Threads : tpc[t] = "idle"
    /\ ssh_host' = OtherHost(ssh_host)
    /\ UNCHANGED <<sshUp, tunnels, transports, sockets, ssh_tunnel, ssh_local_port,
                   tpc, tobj, tloc, tres>>
    /\ UNCHANGED <<restVars, extVars>>

\* The SSH server goes away or comes back
SshChange ==
    /\ sshUp' = ~sshUp
    /\ UNCHANGED <<ssh_host, tunnels, transports, sockets, ssh_tunnel, ssh_local_port,
                   tpc, tobj, tloc, tres>>
    /\ UNCHANGED <<restVars, extVars>>

OpenTransports(h) == {i \in DOMAIN transports : transports[i].host = h /\ transports[i].open}
ListeningSockets(h) ==
    {j \in DOMAIN sockets : sockets[j].listening /\ tunnels[sockets[j].tunnel].host = h}

\* -------------------------------------------------- forwarded connections
\* The state outside the tunnel object and its connections
mgrVars == <<restVars, ssh_host, sshUp, tunnels, transports, sockets, ssh_tunnel,
             ssh_local_port, tpc, tobj, tloc, tres, bootVars, raceVars, txn, appVars>>

SetConn(c, r) == fc' = [fc EXCEPT ![c] = r]

\* A database client connects to the local port (the kernel completes the
\* handshake for a listening socket, which nothing ever closes)
ClientConnect ==
    /\ \E c \in Conns :
        /\ fc[c].cli = "none"
        /\ \A d \in Conns : d < c => fc[d].cli # "none"
        /\ SetConn(c, [fc[c] EXCEPT !.cli = "open"])
        /\ backlog' = backlog \cup {c}
    /\ UNCHANGED <<stop_event, transport, loop, handling, closeWakesRecv>>
    /\ UNCHANGED mgrVars

\* The client writes to its connection (bytes written earlier wait in the
\* socket until a recv of the worker takes them, so the write is the step
\* that meets the recv)
ClientSend ==
    /\ \E c \in Conns :
        /\ fc[c].cli = "open"
        /\ fc[c].up = "recv"
        /\ ~fc[c].upData
        /\ SetConn(c, [fc[c] EXCEPT !.upData = TRUE])
    /\ UNCHANGED <<stop_event, transport, loop, handling, backlog, closeWakesRecv>>
    /\ UNCHANGED mgrVars

\* The client closes its connection
ClientClose ==
    /\ \E c \in Conns :
        /\ fc[c].cli = "open"
        /\ SetConn(c, [fc[c] EXCEPT !.cli = "closed"])
    /\ UNCHANGED <<stop_event, transport, loop, handling, backlog, closeWakesRecv>>
    /\ UNCHANGED mgrVars

\* The remote end writes to the channel (likewise met by the worker's recv)
RemoteSend ==
    /\ \E c \in Conns :
        /\ fc[c].chan = "open"
        /\ fc[c].down = "recv"
        /\ ~fc[c].downData
        /\ SetConn(c, [fc[c] EXCEPT !.downData = TRUE])
    /\ UNCHANGED <<stop_event, transport, loop, handling, backlog, closeWakesRecv>>
    /\ UNCHANGED mgrVars

\* The remote end closes the channel
RemoteEof ==
    /\ \E c \in Conns :
        /\ fc[c].chan = "open"
        /\ SetConn(c, [fc[c] EXCEPT !.chan = "eof"])
    /\ UNCHANGED <<stop_event, transport, loop, handling, backlog, closeWakesRecv>>
    /\ UNCHANGED mgrVars

\* _forward_loop: "while not self._stop_event.is_set()"
LoopCheck ==
    /\ loop = "check"
    /\ loop' = IF stop_event THEN "ended" ELSE "select"
    /\ UNCHANGED <<stop_event, transport, handling, backlog, fc, closeWakesRecv>>
    /\ UNCHANGED mgrVars

\* _forward_loop: select with a timeout of one second, then accept
LoopSelect ==
    /\ loop = "select"
    /\ IF backlog = {}
       THEN loop' = "check" /\ UNCHANGED <<handling, backlog, fc>>
       ELSE LET c == MinOf(backlog)
            IN /\ loop' = "handle"
               /\ handling' = c
               /\ backlog' = backlog \ {c}
               /\ SetConn(c, [fc[c] EXCEPT !.lsock = "open",
                                           !.late = (transport = "closed")])
    /\ UNCHANGED <<stop_event, transport, closeWakesRecv>>
    /\ UNCHANGED mgrVars

\* _handle_forward: open_channel on the transport; when it raises or returns
\* None the accepted socket is closed; otherwise _bridge_sockets starts the
\* two workers.  Either way the call returns to the loop
HandleForward ==
    /\ loop = "handle"
    /\ \E opened \in BOOLEAN :
        /\ opened => transport = "active"
        /\ SetConn(handling,
                   IF opened
                   THEN [fc[handling] EXCEPT !.chan = "open", !.up = "check", !.down = "check"]
                   ELSE [fc[handling] EXCEPT !.lsock = "closed"])
    /\ loop' = "check"
    /\ handling' = 0
    /\ UNCHANGED <<stop_event, transport, backlog, closeWakesRecv>>
    /\ UNCHANGED mgrVars

\* forward(local socket, channel): the worker copying from the client to the
\* remote.  check: the while test, then recv is entered (it raises at once on
\* a socket already closed).  recv: blocked in recv; it returns with data,
\* with EOF when the client has closed, and, when the other worker closes the
\* socket under it, at once or not at all depending on the platform.
\* send: dest.send.  closing: source.close(), dest.close()
UpStep(c) ==
    /\ \/ /\ fc[c].up = "check"
          /\ SetConn(c, [fc[c] EXCEPT !.up = IF stop_event \/ fc[c].lsock = "closed"
                                              THEN "closing" ELSE "recv"])
       \/ /\ fc[c].up = "recv"
          /\ \/ /\ fc[c].upData
                /\ SetConn(c, [fc[c] EXCEPT !.up = "send", !.upData = FALSE])
             \/ /\ ~fc[c].upData
                /\ fc[c].cli = "closed" \/ (fc[c].lsock = "closed" /\ closeWakesRecv)
                /\ SetConn(c, [fc[c] EXCEPT !.up = "closing"])
       \/ /\ fc[c].up = "send"
          /\ SetConn(c, IF fc[c].chan = "open"
                        THEN [fc[c] EXCEPT !.up = "check"]
                        ELSE [fc[c] EXCEPT !.up = "closing"])
       \/ /\ fc[c].up = "closing"
          /\ SetConn(c, [fc[c] EXCEPT !.up = "ended", !.lsock = "closed", !.chan = "closed"])
    /\ UNCHANGED <<stop_event, transport, loop, handling, backlog, closeWakesRecv>>
    /\ UNCHANGED mgrVars

\* forward(channel, local socket): the worker copying from the remote to the
\* client.  A recv on the channel returns with data, and returns empty once
\* the channel is at EOF or closed (by the other worker or with the transport)
DownStep(c) ==
    /\ \/ /\ fc[c].down = "check"
          /\ SetConn(c, [fc[c] EXCEPT !.down = IF stop_event THEN "closing" ELSE "recv"])
       \/ /\ fc[c].down = "recv"
          /\ \/ /\ fc[c].downData /\ fc[c].chan \in {"open", "eof"}
                /\ SetConn(c, [fc[c] EXCEPT !.down = "send", !.downData = FALSE])
             \/ /\ ~(fc[c].downData /\ fc[c].chan \in {"open", "eof"})
                /\ fc[c].chan \in {"eof", "closed"}
                /\ SetConn(c, [fc[c] EXCEPT !.down = "closing"])
       \/ /\ fc[c].down = "send"
          /\ SetConn(c, IF fc[c].lsock = "open" /\ fc[c].cli = "open"
                        THEN [fc[c] EXCEPT !.down = "check"]
                        ELSE [fc[c] EXCEPT !.down = "closing"])
       \/ /\ fc[c].down = "closing"
          /\ SetConn(c, [fc[c] EXCEPT !.down = "ended", !.lsock = "closed", !.chan = "closed"])
    /\ UNCHANGED <<stop_event, transport, loop, handling, backlog, closeWakesRecv>>
    /\ UNCHANGED mgrVars

UpWorker == \E c \in Conns : UpStep(c)
DownWorker == \E c \in Conns : DownStep(c)

\* stop(): self._stop_event.set()
StopSet ==
    /\ ~stop_event
    /\ stop_event' = TRUE
    /\ UNCHANGED <<transport, loop, handling, backlog, fc, closeWakesRecv>>
    /\ UNCHANGED mgrVars

\* stop(): self.client.close(); the transport and its channels are closed
StopClose ==
    /\ stop_event
    /\ transport = "active"
    /\ transport' = "closed"
    /\ fc' = [c \in Conns |->
                IF fc[c].chan \in {"open", "eof"} THEN [fc[c] EXCEPT !.chan = "closed"]
                ELSE fc[c]]
    /\ UNCHANGED <<stop_event, loop, handling, backlog, closeWakesRecv>>
    /\ UNCHANGED mgrVars

\* --------------------------------------------------------- ticket creation
\* The tickets table of a store
TicketsIn(L, C, store) ==
    IF store = "LOCAL" THEN L["tickets"]
    ELSE IF store \in Endpoints THEN C[store]["tickets"]
    ELSE EmptyTable

TicketsOf(store) == TicketsIn(local, cloud, store)

\* Another session of the application, in LOCAL mode on the same
\* local_cache.db, inserts a ticket
LocalInsert ==
    /\ nextBody <= MaxBody
    /\ LocalNextId(local["tickets"]) <= MaxId
    /\ \E k \in Keys :
        LET row == [k |-> k, b |-> nextBody]
        IN /\ local' = [local EXCEPT !["tickets"] = Put(@, LocalNextId(@), row)]
           /\ offline' = offline \cup {row}
    /\ nextBody' = nextBody + 1
    /\ UNCHANGED <<secrets, reach, mode, cloud_source, probes, execVars, cloud, rnext,
                   syncVars>>
    /\ UNCHANGED <<unext, tunVars, extVars>>

\* DatabaseManager.create_ticket up to conn.commit(): the INSERT on the
\* resolved instance (CLOUD; no connection: return None) or on sqlite.  The
\* cursor of the call keeps lastrowid
MgrCreateInsert ==
    /\ pc = "idle"
    /\ tcall.who = "none"
    /\ nextBody <= MaxBody
    /\ \E k \in Keys :
        LET row == [k |-> k, b |-> nextBody]
        IN IF mode = "CLOUD"
           THEN LET r == get_cloud_conn(secrets, reach)
                IN /\ cloud_source' = SourceAfter(cloud_source, r)
                   /\ probes' = r.probes
                   /\ IF r.conn = "NONE"
                      THEN /\ tret' = [who |-> "mgr", ok |-> FALSE, id |-> 0,
                                       store |-> "NONE", stamp |-> nextBody]
                           /\ UNCHANGED <<cloud, rnext, tcall>>
                      ELSE /\ rnext[r.conn] <= MaxId
                           /\ cloud' = [cloud EXCEPT ![r.conn]["tickets"] =
                                            Put(@, rnext[r.conn], row)]
                           /\ rnext' = [rnext EXCEPT ![r.conn] = @ + 1]
                           /\ tcall' = [who |-> "mgr", store |-> r.conn,
                                        cur |-> rnext[r.conn], stamp |-> nextBody]
                           /\ tret' = NoTicketRet
                   /\ UNCHANGED <<local, offline>>
           ELSE /\ LocalNextId(local["tickets"]) <= MaxId
                /\ local' = [local EXCEPT !["tickets"] = Put(@, LocalNextId(@), row)]
                /\ offline' = offline \cup {row}
                /\ tcall' = [who |-> "mgr", store |-> "LOCAL",
                             cur |-> LocalNextId(local["tickets"]), stamp |-> nextBody]
                /\ tret' = NoTicketRet
                /\ NoProbe
                /\ UNCHANGED <<cloud, rnext, cloud_source>>
    /\ nextBody' = nextBody + 1
    /\ NoExec
    /\ UNCHANGED <<secrets, reach, mode, syncVars>>
    /\ UNCHANGED <<unext, tunVars, bootVars, raceVars, txn, fwdVars, notCreateVars>>

\* DatabaseManager.create_ticket: last_id = cursor.lastrowid; return last_id
MgrCreateReturn ==
    /\ tcall.who = "mgr"
    /\ tret' = [who |-> "mgr", ok |-> TRUE, id |-> tcall.cur, store |-> tcall.store,
                stamp |-> tcall.stamp]
    /\ tcall' = NoTicketCall
    /\ NoExec /\ NoProbe
    /\ UNCHANGED <<secrets, reach, mode, cloud_source, dataVars, syncVars>>
    /\ UNCHANGED <<unext, tunVars, bootVars, raceVars, txn, fwdVars, notCreateVars>>

\* create_ticket of app.py, first statement: the INSERT through execute();
\* what execute() returns is not looked at
AppCreateInsert ==
    /\ pc = "idle"
    /\ tcall.who = "none"
    /\ nextBody <= MaxBody
    /\ \E k \in Keys, qfault \in BOOLEAN, lfault \in BOOLEAN :
        LET row == [k |-> k, b |-> nextBody]
            x == execute(mode, secrets, reach, cloud_source, "q1", qfault, lfault)
            newId == IF x.store \in Endpoints THEN rnext[x.store]
                     ELSE IF x.store = "LOCAL" THEN LocalNextId(local["tickets"])
                     ELSE 0
        IN /\ mode' = x.mode
           /\ cloud_source' = x.source
           /\ probes' = x.probes
           /\ execLog' = x.log
           /\ execRet' = x.ret
           /\ newId <= MaxId
           /\ cloud' = IF x.store \in Endpoints
                       THEN [cloud EXCEPT ![x.store]["tickets"] = Put(@, newId, row)]
                       ELSE cloud
           /\ rnext' = IF x.store \in Endpoints
                       THEN [rnext EXCEPT ![x.store] = @ + 1]
                       ELSE rnext
           /\ local' = IF x.store = "LOCAL"
                       THEN [local EXCEPT !["tickets"] = Put(@, newId, row)]
                       ELSE local
           /\ offline' = IF x.store = "LOCAL" THEN offline \cup {row} ELSE offline
           /\ tcall' = [who |-> "app", store |-> x.store, cur |-> newId, stamp |-> nextBody]
    /\ tret' = NoTicketRet
    /\ nextBody' = nextBody + 1
    /\ UNCHANGED <<secrets, reach, syncVars>>
    /\ UNCHANGED <<unext, tunVars, bootVars, raceVars, txn, fwdVars, notCreateVars>>

\* create_ticket of app.py, second statement: SELECT MAX(id) FROM tickets
\* through execute(); a non-empty result is returned as (True, id), an empty
\* one (the statement failed locally) as (False, message)
AppCreateFetch ==
    /\ tcall.who = "app"
    /\ \E qfault \in BOOLEAN, lfault \in BOOLEAN :
        LET x == execute(mode, secrets, reach, cloud_source, "q2", qfault, lfault)
        IN /\ mode' = x.mode
           /\ cloud_source' = x.source
           /\ probes' = x.probes
           /\ execLog' = x.log
           /\ execRet' = x.ret
           /\ tret' = [who |-> "app", ok |-> x.store # "NONE",
                       id |-> MaxOf(DOMAIN TicketsOf(x.store)),
                       store |-> tcall.store, stamp |-> tcall.stamp]
    /\ tcall' = NoTicketCall
    /\ UNCHANGED <<secrets, reach, dataVars, syncVars>>
    /\ UNCHANGED <<unext, tunVars, bootVars, raceVars, txn, fwdVars, notCreateVars>>

Next ==
    \/ EnvChange
    \/ SyncBegin
    \/ SyncPush
    \/ SyncFiles
    \/ SyncConnect
    \/ SyncPullTable
    \/ SyncEnd
    \/ SyncReturn
    \/ Reconnect
    \/ Execute
    \/ CreateTicket
    \/ SaveAttachment
    \/ SyncFilesOp
    \/ ReplicateCloudDb
    \/ AddCompanionUser
    \/ DeleteCompanionUser

Spec == Init /\ [][Next]_vars

NextConn ==
    \/ EnvChange
    \/ SyncBegin
    \/ SyncPush
    \/ SyncFiles
    \/ SyncConnect
    \/ SyncPullTable
    \/ SyncEnd
    \/ SyncReturn
    \/ Reconnect
    \/ Execute

SpecConn == InitConn /\ [][NextConn]_vars

NextSync ==
    \/ EnvChange
    \/ RemoteInsert
    \/ SyncBegin
    \/ SyncPush
    \/ SyncFiles
    \/ SyncConnect
    \/ SyncPullTable
    \/ SyncEnd
    \/ SyncReturn
    \/ CreateTicket
    \/ SaveAttachment

SpecSync == InitSync /\ [][NextSync]_vars

\* Replication between the two instances: the assets of Scenario D (ten rows
\* on the primary, three of them by key on the backup), or the seeded cloud
ScenarioD ==
    [e \in Endpoints |->
        [t \in CloudTables |->
            IF t # "assets" THEN EmptyTable
            ELSE IF e = "PRIMARY" THEN [i \in 1..10 |-> [k |-> 0, b |-> 1]]
            ELSE [i \in {2, 5, 9} |-> [k |-> 0, b |-> 2]]]]

BothConfigured == {x \in SecretsSet : x.mysql /\ x.mysql_backup /\ x.vps = "BACKUP"}

InitRepl ==
    /\ \E sec \in BothConfigured :
          \E rch \in ReachSet(sec), c \in {ScenarioD, SeedCloud(EmptyTable)} :
             InitManager(sec, rch, c, MaxBody + 1)
    /\ TunnelInit({1}, "VPS", TRUE)
    /\ ExtInit

NextRepl ==
    \/ EnvChange
    \/ ReplicateCloudDb
    \/ AddCompanionUser
    \/ DeleteCompanionUser

SpecRepl == InitRepl /\ [][NextRepl]_vars

\* Two threads of one manager ask for connections through the tunnel while
\* the SSH server answers and the [ssh] section stays as it is
InitTunnel ==
    /\ \E sec \in BothConfigured :
          InitManager(sec, [e \in Endpoints |-> TRUE], SeedCloud(EmptyTable), MaxBody + 1)
    /\ TunnelInit({1, 2}, "VPS", TRUE)
    /\ ExtInit

NextTunnel ==
    \/ TunnelCheck
    \/ TunnelVpsCheck
    \/ TunnelStop
    \/ TunnelNew
    \/ TunnelStartConnect
    \/ TunnelStartBind
    \/ TunnelAssignPort
    \/ TunnelUse
    \/ TunnelReturn

SpecTunnel == InitTunnel /\ [][NextTunnel]_vars

\* One thread; the manager can be reloaded, the [ssh] host edited, and the
\* SSH server can go away
InitTunnelSeq ==
    /\ \E sec \in BothConfigured :
          InitManager(sec, [e \in Endpoints |-> TRUE], SeedCloud(EmptyTable), MaxBody + 1)
    /\ \E h \in Hosts : TunnelInit({1}, h, TRUE)
    /\ ExtInit

NextTunnelSeq ==
    \/ TunnelCheck
    \/ TunnelVpsCheck
    \/ TunnelStop
    \/ TunnelNew
    \/ TunnelStartConnect
    \/ TunnelStartBind
    \/ TunnelAssignPort
    \/ TunnelUse
    \/ TunnelReturn
    \/ SystemReload
    \/ HostChange
    \/ SshChange

SpecTunnelSeq == InitTunnelSeq /\ [][NextTunnelSeq]_vars

\* Two sync() calls on the same manager and local cache
InitRace ==
    /\ \E sec \in {x \in SecretsSet : x.mysql /\ ~x.mysql_backup /\ x.vps = "NONE"} :
          \E rch \in ReachSet(sec), tk \in SeedTickets :
             InitManager(sec, rch, SeedCloud(tk), 1)
    /\ TunnelInit({1}, "VPS", TRUE)
    /\ ExtInit

NextRace ==
    \/ EnvChange
    \/ CreateTicket
    \/ SyncBegin
    \/ SyncPush
    \/ SyncFiles
    \/ SyncConnect
    \/ SyncPullTable
    \/ SyncEnd
    \/ SyncReturn
    \/ Sync2Begin
    \/ Sync2Push
    \/ Sync2Files
    \/ Sync2Connect
    \/ Sync2PullTable
    \/ Sync2End
    \/ Sync2Return

SpecRace == InitRace /\ [][NextRace]_vars

\* A sync() whose push runs statement by statement, next to the readers of
\* the committed cache
NextPush ==
    \/ EnvChange
    \/ CreateTicket
    \/ SaveAttachment
    \/ SyncBegin
    \/ PushOpen
    \/ PushTicket
    \/ PushAttach
    \/ PushCommit
    \/ SyncFiles
    \/ SyncConnect
    \/ SyncPullTable
    \/ SyncEnd
    \/ SyncReturn

SpecPush == InitSync /\ [][NextPush]_vars

\* From before the constructor runs.  A secrets store that cannot be read
\* has no section that could be configured
InitBoot ==
    /\ \E sec \in SecretsSet : \E rch \in ReachSet(sec) :
          /\ secrets = sec
          /\ reach = rch
          /\ cfgOk \in BOOLEAN
          /\ ~cfgOk => (~sec.mysql /\ ~sec.mysql_backup)
    /\ cloud = SeedCloud(EmptyTable)
    /\ mode = "PENDING"
    /\ cloud_source = "NONE"
    /\ probes = <<>>
    /\ local = EmptyLocal
    /\ schema \in BOOLEAN
    /\ raised = FALSE
    /\ rnext = [e \in Endpoints |-> 1]
    /\ execLog = <<>>
    /\ execRet = NoCall
    /\ offline = {}
    /\ nextBody = MaxBody + 1
    /\ pc = "idle"
    /\ pullIdx = 1
    /\ pullConn = "NONE"
    /\ syncLog = <<>>
    /\ syncRet = FALSE
    /\ unext = 1
    /\ TunnelInit({1}, "VPS", TRUE)
    /\ RaceInit
    /\ txn = NoTxn
    /\ FwdInit(FALSE)
    /\ AppInit

NextBoot ==
    \/ Construct
    \/ EnvChange
    \/ BootSyncBegin
    \/ SyncPush
    \/ SyncFiles
    \/ SyncConnect
    \/ SyncPullTable
    \/ SyncEnd
    \/ SyncReturn
    \/ BootReconnect
    \/ BootExecute

SpecBoot == InitBoot /\ [][NextBoot]_vars

\* One started tunnel, its accept loop, the connections made through it and
\* stop().  The threads of the tunnel are scheduled fairly; the clients and
\* the remote end act when they please
InitFwd ==
    /\ \E sec \in BothConfigured :
          InitManager(sec, [e \in Endpoints |-> TRUE], SeedCloud(EmptyTable), MaxBody + 1)
    /\ TunnelInit({1}, "VPS", TRUE)
    /\ BootInit /\ RaceInit /\ txn = NoTxn
    /\ \E wakes \in BOOLEAN : FwdInit(wakes)
    /\ AppInit

NextFwd ==
    \/ ClientConnect
    \/ ClientSend
    \/ ClientClose
    \/ RemoteSend
    \/ RemoteEof
    \/ LoopCheck
    \/ LoopSelect
    \/ HandleForward
    \/ UpWorker
    \/ DownWorker
    \/ StopSet
    \/ StopClose

FairFwd ==
    /\ WF_vars(LoopCheck) /\ WF_vars(LoopSelect) /\ WF_vars(HandleForward)
    /\ WF_vars(StopClose)
    /\ \A c \in Conns : WF_vars(UpStep(c)) /\ WF_vars(DownStep(c))

SpecFwd == InitFwd /\ [][NextFwd]_vars /\ FairFwd

\* Ticket creation while other sessions insert tickets and the network
\* changes
InitCreate ==
    /\ \E sec \in {x \in SecretsSet : x.mysql /\ x.vps = "NONE"} :
          \E rch \in ReachSet(sec), tk \in SeedTickets :
             InitManager(sec, rch, SeedCloud(tk), 1)
    /\ TunnelInit({1}, "VPS", TRUE)
    /\ ExtInit

NextCreate ==
    \/ EnvChange
    \/ RemoteInsert
    \/ LocalInsert
    \/ MgrCreateInsert
    \/ MgrCreateReturn
    \/ AppCreateInsert
    \/ AppCreateFetch

SpecCreate == InitCreate /\ [][NextCreate]_vars

\* Replication between instances whose schemas may differ: the primary
\* holds assets and a companion user; the backup is complete, or lacks the
\* assets table, or is a fresh database without any table
SchemaSeed ==
    [e \in Endpoints |->
        [t \in CloudTables |->
            IF e = "PRIMARY" /\ t = "assets" THEN SeedAssets
            ELSE IF e = "PRIMARY" /\ t = "companion_users" THEN [i \in {1} |-> [k |-> 1, b |-> 1]]
            ELSE EmptyTable]]

SchemaSet ==
    {FullSchema,
     [e \in Endpoints |-> IF e = "BACKUP" THEN {"assets"} ELSE {}],
     [e \in Endpoints |-> IF e = "BACKUP" THEN CloudTables ELSE {}]}

InitReplSchema ==
    /\ \E sec \in BothConfigured :
          \E rch \in ReachSet(sec) : InitManager(sec, rch, SchemaSeed, 1)
    /\ TunnelInit({1}, "VPS", TRUE)
    /\ BootInit /\ RaceInit /\ txn = NoTxn /\ FwdInit(FALSE)
    /\ CreateInit
    /\ FileInit
    /\ SlaInit
    /\ LinkInit
    /\ ColInit
    /\ AssetInit
    /\ RecInit
    /\ absent \in SchemaSet

NextReplSchema ==
    \/ EnvChange
    \/ RemoteInsert
    \/ ReplicateCloudDb

SpecReplSchema == InitReplSchema /\ [][NextReplSchema]_vars

\* File synchronization and the storage configuration: any app_config.json,
\* any contents of the two directories
InitFiles ==
    /\ \E sec \in {x \in SecretsSet : x.mysql /\ ~x.mysql_backup /\ x.vps = "NONE"} :
          InitManager(sec, [e \in Endpoints |-> e = "PRIMARY"], SeedCloud(EmptyTable), MaxBody + 1)
    /\ TunnelInit({1}, "VPS", TRUE)
    /\ BootInit /\ RaceInit /\ txn = NoTxn /\ FwdInit(FALSE)
    /\ CreateInit
    /\ absent = FullSchema
    /\ cfgFile \in ConfigFiles
    /\ fs \in [Dirs -> DirStates]
    /\ filesRet = "none"
    /\ SlaInit
    /\ LinkInit
    /\ ColInit
    /\ AssetInit
    /\ RecInit

NextFiles ==
    \/ SyncFilesOp
    \/ SetStorageConfig

SpecFiles == InitFiles /\ [][NextFiles]_vars

\* Companion-user management under every configuration, while the network
\* changes and the manager switches between CLOUD and LOCAL
NextUsers ==
    \/ EnvChange
    \/ Reconnect
    \/ Execute
    \/ AddCompanionUser
    \/ DeleteCompanionUser
    \/ UpdateCompanionUserStatus
    \/ UpdateCompanionUserPassword

SpecUsers == InitConn /\ [][NextUsers]_vars

\* Tickets created with every priority, in CLOUD and in LOCAL mode, while
\* time passes
InitSla ==
    /\ \E sec \in {x \in SecretsSet : x.mysql /\ ~x.mysql_backup /\ x.vps = "NONE"} :
          \E rch \in ReachSet(sec) :
             InitManager(sec, rch, SeedCloud(EmptyTable), 1)
    /\ TunnelInit({1}, "VPS", TRUE)
    /\ ExtInit

NextSla ==
    \/ EnvChange
    \/ Tick
    \/ CreateTicketDue

SpecSla == InitSla /\ [][NextSla]_vars

\* Controls linked to assets in CLOUD and in LOCAL mode while the network
\* changes
InitLink ==
    /\ \E sec \in {x \in SecretsSet : x.mysql /\ ~x.mysql_backup /\ x.vps = "NONE"} :
          \E rch \in ReachSet(sec) :
             InitManager(sec, rch, SeedCloud(EmptyTable), 1)
    /\ TunnelInit({1}, "VPS", TRUE)
    /\ ExtInit

NextLink ==
    \/ EnvChange
    \/ Reconnect
    \/ LinkAssetControl

SpecLink == InitLink /\ [][NextLink]_vars

\* A caller that constructs the manager, reconnects and runs statements but
\* never calls sync()
NextNoSync ==
    \/ Construct
    \/ EnvChange
    \/ SyncPush
    \/ SyncFiles
    \/ SyncConnect
    \/ SyncPullTable
    \/ SyncEnd
    \/ SyncReturn
    \/ BootReconnect
    \/ BootExecute

SpecNoSync == InitBoot /\ [][NextNoSync]_vars

\* The push statement by statement, with commits that can fail
NextPushFault ==
    \/ EnvChange
    \/ CreateTicket
    \/ SaveAttachment
    \/ SyncBegin
    \/ PushOpen
    \/ PushTicket
    \/ PushAttach
    \/ PushCommit
    \/ PushCommitRaises
    \/ SyncFiles
    \/ SyncConnect
    \/ SyncPullTable
    \/ SyncEnd
    \/ SyncReturn

SpecPushFault == InitSync /\ [][NextPushFault]_vars

\* One offline ticket through a sync cycle, column by column
NextCols ==
    \/ ColCreate
    \/ ColPush
    \/ ColPull

SpecCols == InitLink /\ [][NextCols]_vars

\* ================================================================== claims
Configured(sec, e) == IF e = "PRIMARY" THEN sec.mysql ELSE sec.mysql_backup

\* The candidates in their fixed order, and the earliest one that is
\* configured and answers ("NONE": no such candidate)
Candidates == <<"PRIMARY", "BACKUP">>
EarliestReachable(sec, rch) ==
    LET ok == {i \in DOMAIN Candidates :
                 Configured(sec, Candidates[i]) /\ rch[Candidates[i]]}
    IN IF ok = {} THEN "NONE" ELSE Candidates[MinOf(ok)]

InSeq(x, sq) == \E i \in DOMAIN sq : sq[i] = x

\* A step of the manager in which _get_cloud_conn ran (the network is as it
\* was, and either a probe was made or the step is a reconnect or the probe
\* of a sync() called outside CLOUD mode)
ResolutionStep ==
    /\ reach' = reach
    /\ probes' # <<>> \/ Reconnect \/ (SyncBegin /\ mode # "CLOUD")

\* C2: connection resolution tries the primary first and the secondary only
\* when the primary is not configured or does not answer; it never selects a
\* later candidate while an earlier one answers; LOCAL results only when no
\* candidate answers.  With the primary refusing and the secondary accepting
\* the manager is in mode CLOUD with source BACKUP.  The constructor (the
\* initial state), sync() and the reconnect button all resolve this way.
C2_ResolutionOrder ==
    /\ cloud_source = EarliestReachable(secrets, reach)
    /\ mode = IF EarliestReachable(secrets, reach) = "NONE" THEN "LOCAL" ELSE "CLOUD"
    /\ [][ResolutionStep =>
            /\ \A i, j \in DOMAIN probes' :
                  (probes'[i] = "PRIMARY" /\ probes'[j] = "BACKUP") => i < j
            /\ InSeq("PRIMARY", probes') <=> secrets.mysql
            /\ InSeq("BACKUP", probes') <=>
                  (secrets.mysql_backup /\ ~(secrets.mysql /\ reach["PRIMARY"]))
            /\ EarliestReachable(secrets, reach) # "NONE" =>
                  cloud_source' = EarliestReachable(secrets, reach)
            /\ (Reconnect \/ SyncBegin) =>
                  (mode' = "CLOUD" <=> EarliestReachable(secrets, reach) # "NONE")
            /\ (Reconnect /\ secrets.mysql /\ ~reach["PRIMARY"]
                  /\ secrets.mysql_backup /\ reach["BACKUP"]) =>
                  (mode' = "CLOUD" /\ cloud_source' = "BACKUP")]_vars

\* C2 witness: a sync() called in LOCAL mode probed the refusing primary, then
\* the accepting secondary, and the manager is CLOUD on the BACKUP source
C2_Witness ==
    /\ pc = "push"
    /\ probes = <<"PRIMARY", "BACKUP">>
    /\ ~reach["PRIMARY"] /\ reach["BACKUP"]
    /\ mode = "CLOUD"
    /\ cloud_source = "BACKUP"

\* A step in which execute() was called
ExecuteStep == reach' = reach /\ execRet' # NoCall

\* C3: execute() called in CLOUD mode while no remote endpoint can be reached
\* sets the mode to LOCAL, runs the same query exactly once, on the local
\* store, and returns the local result (False/[] when sqlite itself raised).
C3_FailoverRunsLocalOnce ==
    [][(ExecuteStep /\ mode = "CLOUD" /\ \A e \in Endpoints : ~reach[e]) =>
          /\ mode' = "LOCAL"
          /\ Len(execLog') = 1
          /\ execLog'[1].store = "LOCAL"
          /\ execLog'[1].q = execRet'.q
          /\ execRet'.val = IF execLog'[1].ok THEN "ok" ELSE "fail"]_vars

\* C3 witness: an execute() that probed both unreachable endpoints ended with
\* one successful local run and the manager in LOCAL mode
C3_Witness ==
    /\ \A e \in Endpoints : ~reach[e]
    /\ probes = <<"PRIMARY", "BACKUP">>
    /\ mode = "LOCAL"
    /\ execLog = <<[store |-> "LOCAL", q |-> "q2", ok |-> TRUE]>>
    /\ execRet = [q |-> "q2", val |-> "ok"]

SyncReachedRemote ==
    /\ pc = "done"
    /\ syncRet
    /\ syncLog # <<>>
    /\ syncLog[1].phase = "push"
    /\ syncLog[1].conn # "NONE"
    /\ \A i \in DOMAIN syncLog : syncLog[i].phase = "pull" => syncLog[i].out # "failed"

\* No ticket of the remote other than the pushed copy carries the
\* reconciliation tuple (title, logged_by, asset_id) of a ticket created offline
NoTupleMatch ==
    \A r \in offline : \A e \in Endpoints : \A j \in DOMAIN cloud[e]["tickets"] :
        (cloud[e]["tickets"][j].k = r.k /\ r.k # NullKey) => cloud[e]["tickets"][j].b = r.b

\* C1: after a sync() that reached the remote, every ticket created while
\* LOCAL exists remotely and locally under the same (remote-assigned) id,
\* every local attachment row points to the ticket it was attached to, and no
\* local attachment row points to a ticket id that does not exist locally.
\* (Stated for tickets whose reconciliation tuple matches no other remote
\* ticket.)
C1_PushRemapsOfflineTickets ==
    (SyncReachedRemote /\ NoTupleMatch) =>
        LET R == cloud[syncLog[1].conn]["tickets"]
            L == local["tickets"]
            A == local["ticket_attachments"]
        IN /\ \A r \in offline : \E i \in DOMAIN R \cap DOMAIN L : R[i] = r /\ L[i] = r
           /\ \A a \in DOMAIN A : A[a].k \in DOMAIN L
           /\ \A a \in DOMAIN A : (\E r \in offline : r.b = A[a].b) => L[A[a].k].b = A[a].b

\* A step of _sync_data's table loop
PullStep == pc = "pull" /\ pullIdx' = pullIdx + 1

\* C5: a table pulled without error has, afterwards, every remote row
\* locally with the remote's values (a local row of the same primary key is
\* replaced), and its local rows of other keys are as they were.
C5_PullRemoteWins ==
    [][(PullStep /\ syncLog'[Len(syncLog')].out # "failed") =>
          LET tbl == PullTables[pullIdx]
              R == cloud[pullConn][tbl]
              L == local[tbl]
              L2 == local'[tbl]
          IN /\ DOMAIN L2 = DOMAIN L \cup DOMAIN R
             /\ \A i \in DOMAIN R : L2[i] = R[i]
             /\ \A i \in DOMAIN L \ DOMAIN R : L2[i] = L[i]
             /\ \A t \in LocalTables \ {tbl} : local'[t] = local[t]]_vars

\* C5 witness: the pull of tickets succeeded and replaced a ticket that was
\* created offline (its row is gone from the local table, the remote row of
\* that key is there)
C5_Witness ==
    /\ pc = "pull"
    /\ pullIdx = 3
    /\ syncLog[Len(syncLog)].out = "ok"
    /\ \E r \in offline : \A i \in DOMAIN local["tickets"] : local["tickets"][i] # r
    /\ \A i \in DOMAIN cloud[pullConn]["tickets"] :
          i \in DOMAIN local["tickets"] /\ local["tickets"][i] = cloud[pullConn]["tickets"][i]

PhaseRank(ph) == IF ph = "push" THEN 1 ELSE IF ph = "files" THEN 2 ELSE 3

\* C6: in every sync cycle the push is attempted first, the phases follow in
\* the order push, files, pull, the local cache is written by the pull only
\* after the push was attempted, and the push always hands over to the next
\* phase, whether it succeeded or failed.
C6_PushBeforePull ==
    /\ [](/\ syncLog # <<>> => syncLog[1].phase = "push"
          /\ \A i, j \in DOMAIN syncLog :
                i < j => /\ PhaseRank(syncLog[i].phase) <= PhaseRank(syncLog[j].phase)
                         /\ syncLog[j].phase # "push")
    /\ [][pc' # pc =>
            /\ pc = "push" => (pc' = "files" /\ Len(syncLog') = 1)
            /\ pc = "files" => pc' = "connect"
            /\ (pc = "connect" /\ test_cloud_connection(secrets, reach)) => pc' = "pull"
            /\ (PullStep /\ local' # local) => syncLog[1].phase = "push"
            /\ (pc \notin {"idle", "push", "pull"}) => local' = local]_vars

\* C6 witness: the push failed and the pull that followed it wrote a table
C6_Witness ==
    /\ pc = "pull"
    /\ syncLog[1].phase = "push"
    /\ syncLog[1].out = "failed"
    /\ syncLog[Len(syncLog)].phase = "pull"
    /\ syncLog[Len(syncLog)].out = "ok"

\* A step that is a successful replicate_cloud_db(dir, tables) in which the
\* tables failTbls raised
ReplRun(dir, tables, failTbls) ==
    /\ ReplicateCloudDb
    /\ failTbls \subseteq (IF tables = {} THEN CloudTables ELSE tables)
    /\ replicate_cloud_db(secrets, reach, cloud, dir, tables, failTbls).ok
    /\ cloud' = replicate_cloud_db(secrets, reach, cloud, dir, tables, failTbls).cloud

\* The tables such a run replicated without error
Replicated(tables, failTbls) == (IF tables = {} THEN CloudTables ELSE tables) \ failTbls

\* Source rows INSERT IGNORE does not drop: their primary key is not on the
\* target, nor (in a table with a UNIQUE column) their unique value
Insertable(S, T, uniq) ==
    {i \in DOMAIN S \ DOMAIN T : ~(uniq /\ \E j \in DOMAIN T : T[j].k = S[i].k)}

C8_ReplicateIdempotent ==
    [][\A dir \in Directions, tables \in TableLists, failTbls \in FailLists :
          ReplRun(dir, tables, failTbls) =>
             replicate_cloud_db(secrets, reach, cloud', dir, tables, failTbls).cloud = cloud']_vars

\* C8 witness: a companion user and the seeded asset have been replicated
\* from one instance to the other, which now hold the same rows
C8_Witness ==
    /\ cloud["PRIMARY"]["companion_users"] # EmptyTable
    /\ cloud["PRIMARY"]["companion_users"] = cloud["BACKUP"]["companion_users"]
    /\ cloud["BACKUP"]["assets"] = SeedAssets
    /\ cloud["PRIMARY"]["assets"] = SeedAssets

\* C9: when the threads have asked for a tunnel to the same SSH host
\* concurrently, all of them got the same local port, and one SSH transport
\* and one listening socket were opened.
C9_ConcurrentStartsShareTunnel ==
    (\A t \in Threads : tpc[t] = "done") =>
        /\ \A t, u \in Threads : tres[t] = tres[u]
        /\ \A t \in Threads : tres[t] # 0
        /\ Len(transports) = 1
        /\ Len(sockets) = 1

\* C10: at any time at most one tunnel (SSH transport, listening socket) is
\* open per SSH host, and a request made while the host has an open tunnel
\* is served through a listening port of a tunnel to the current SSH host.
C10_OneTunnelPerHost ==
    /\ \A h \in Hosts : /\ Cardinality(OpenTransports(h)) <= 1
                       /\ Cardinality(ListeningSockets(h)) <= 1
    /\ \A t \in Threads :
          (tpc[t] = "done" /\ OpenTransports(ssh_host) # {}) =>
             /\ tres[t] \in ListeningSockets(ssh_host)

\* A sync() call is between its entry and its return
InFlight(p) == p \notin {"idle", "done"}

\* C11: at most one sync() run is in progress on the same manager and local
\* cache at any time: while one run is between its entry and its return no
\* other run is (a second request would have been rejected or delayed), so
\* the writes of two runs to the local cache never interleave.
C11_OneSyncInFlight == ~(InFlight(pc) /\ InFlight(pc2))

\* What a reader of the committed cache sees is whole: an attachment of a
\* ticket that the reader can see (the ticket row carrying the attachment's
\* stamp is in tickets) points to the id under which the reader sees it
Whole(L, A) ==
    \A a \in DOMAIN A :
        (\E i \in DOMAIN L : L[i].b = A[a].b) =>
            (A[a].k \in DOMAIN L /\ L[A[a].k].b = A[a].b)

\* The push has changed a ticket's id, or its attachments' ticket_id, inside
\* its transaction
Remapping == txn.on /\ (txn.L # local["tickets"] \/ txn.A # local["ticket_attachments"])

\* C12: during the push the change of a local ticket's primary key and the
\* change of its attachments' ticket_id become visible to a reader of the
\* local cache together: while the push is remapping, the reader sees the
\* cache as it was when the push began, and no step of the push takes the
\* reader from a view in which every attachment points to its ticket to one
\* in which a ticket is under one id and its attachment under another.
C12_RemapAtomicForReaders ==
    /\ [][(pc = "push" /\ Whole(local["tickets"], local["ticket_attachments"])) =>
             Whole(local'["tickets"], local'["ticket_attachments"])]_vars
    /\ [][(txn.on /\ txn'.on) => local' = local]_vars
    /\ [][(PushCommit /\ txn.cnt > 0) =>
             /\ local'["tickets"] = txn.L
             /\ local'["ticket_attachments"] = txn.A]_vars

\* C12 witness: inside the push's transaction a ticket with an attachment has
\* its new id while the attachment still has the old one, and the committed
\* cache still shows both under the old id
C12_Witness ==
    /\ txn.on
    /\ txn.stage = "att"
    /\ txn.old # txn.new
    /\ \E a \in DOMAIN txn.A : txn.A[a].k = txn.old
    /\ ~Whole(txn.L, txn.A)
    /\ txn.old \in DOMAIN local["tickets"]
    /\ \E a \in DOMAIN local["ticket_attachments"] :
          /\ local["ticket_attachments"][a].k = txn.old
          /\ local["ticket_attachments"][a].b = local["tickets"][txn.old].b

\* C13: when resolution ends with both remotes unreachable the mode is LOCAL
\* and the local schema exists afterwards, even if the local store had no
\* tables before; and in every state after construction in which the mode is
\* LOCAL (also after a fallback inside execute()) the local schema exists.
C13_LocalModeHasSchema ==
    /\ [](mode = "LOCAL" => schema)
    /\ [][(Construct /\ ~test_cloud_connection(secrets, reach)) =>
             (mode' = "LOCAL" /\ schema')]_vars

\* C13 witness: the manager was constructed in CLOUD mode and an execute()
\* that found no remote has fallen back to LOCAL; the local schema exists
C13_Witness ==
    /\ mode = "LOCAL"
    /\ schema
    /\ probes = <<"PRIMARY", "BACKUP">>
    /\ Len(execLog) = 1
    /\ execLog[1].store = "LOCAL"

\* A step that is a constructor call, a reconnect, or the probe of a sync()
ProbingCall == Construct \/ Reconnect \/ (SyncBegin /\ mode # "CLOUD")

C15_QueryFaultIsReported ==
    [][(ExecuteStep /\ mode = "CLOUD" /\ execLog' # <<>>
          /\ execLog'[1].store \in Endpoints /\ ~execLog'[1].ok) =>
             /\ mode' = "CLOUD"
             /\ Len(execLog') = 1
             /\ execRet'.val = "fail"]_vars

\* The entries of the table loop in the log of the current sync()
PullEntries == SelectSeq(syncLog, LAMBDA x : x.phase = "pull")

sync_result ==
    [success |-> syncRet,
     message |-> IF syncRet THEN "Sync Successful"
                 ELSE IF syncLog = <<>> THEN "Cannot Sync: Cloud Unreachable"
                 ELSE "'NoneType' object has no attribute 'cursor'",
     tables |-> {}]

\* The tables whose pull failed in the sync() that has just ended
FailedTables == {PullEntries[i].tbl : i \in {j \in DOMAIN PullEntries : PullEntries[j].out = "failed"}}

\* C17: when one or more tables fail during a sync cycle, the
\* (success, message) result of sync() names the tables that failed, so a
\* partially successful sync differs from a fully successful one.
C17_ResultNamesFailedTables ==
    (pc = "done" /\ FailedTables # {}) =>
        /\ FailedTables \subseteq sync_result.tables
        /\ sync_result # [success |-> TRUE, message |-> "Sync Successful", tables |-> {}]

WorkerOver(w) == w \in {"none", "ended"}

\* A step of one of the two workers of connection c (not their start)
WorkerStepOf(c) ==
    /\ fc[c].up # "none"
    /\ fc'[c].up # fc[c].up \/ fc'[c].down # fc[c].down

\* C18: for one forwarded connection, when either worker ends, both the local
\* socket and the channel of that connection are closed and its other worker
\* ends; the accept loop keeps accepting and every other connection is left
\* as it is, also when opening the channel for a new connection fails.
C18_WorkerEndClosesConnection ==
    /\ [](\A c \in Conns :
            (fc[c].up = "ended" \/ fc[c].down = "ended") =>
                (fc[c].lsock = "closed" /\ fc[c].chan = "closed"))
    /\ \A c \in Conns : (fc[c].up = "ended") ~> (fc[c].down = "ended")
    /\ \A c \in Conns : (fc[c].down = "ended") ~> (fc[c].up = "ended")
    /\ [][\A c \in Conns : WorkerStepOf(c) =>
             /\ \A d \in Conns \ {c} : fc'[d] = fc[d]
             /\ loop' = loop /\ transport' = transport /\ stop_event' = stop_event]_vars
    /\ [][(loop = "handle" /\ loop' # loop) => loop' = "check"]_vars

\* C19: after stop() has been called the transport is closed, the accept
\* loop and every forwarding worker eventually terminate, and no connection
\* accepted after stop() is forwarded to the remote host.
C19_StopEndsLoopAndWorkers ==
    /\ stop_event ~> (/\ transport = "closed"
                      /\ loop = "ended"
                      /\ \A c \in Conns : WorkerOver(fc[c].up) /\ WorkerOver(fc[c].down))
    /\ [](\A c \in Conns : fc[c].late => (fc[c].chan = "none" /\ fc[c].up = "none"))

\* C20: when create_ticket is called in CLOUD mode while no remote endpoint
\* is reachable, the operation is not abandoned: the ticket is stored in the
\* local cache under a new id (the id returned), and the mode becomes LOCAL.
C20_CreateTicketFailsOverToLocal ==
    [][(CreateTicket /\ mode = "CLOUD" /\ get_cloud_conn(secrets, reach).conn = "NONE") =>
          /\ mode' = "LOCAL"
          /\ \E i \in DOMAIN local'["tickets"] \ DOMAIN local["tickets"] :
                /\ local'["tickets"][i].b = nextBody
                /\ local'["tickets"] = Put(local["tickets"], i, local'["tickets"][i])]_vars

\* A step in which a ticket creation returns an id to its caller
CreateReturns == tret' # tret /\ tret'.who # "none" /\ tret'.ok

\* C21: the id returned by ticket creation is the id of the ticket row this
\* call inserted, in CLOUD and in LOCAL mode, also when other sessions create
\* tickets between the insert and the return.
C21_ReturnedIdIsOwnRow ==
    [][CreateReturns =>
          /\ tret'.store # "NONE"
          /\ tret'.id \in DOMAIN TicketsIn(local', cloud', tret'.store)
          /\ TicketsIn(local', cloud', tret'.store)[tret'.id].b = tret'.stamp]_vars

\* A step that is a replicate_cloud_db(dir, tables) call in which the tables
\* failTbls raised for reasons other than the schema
ReplCall(dir, tables, failTbls) ==
    /\ ReplicateCloudDb
    /\ failTbls \subseteq (IF tables = {} THEN CloudTables ELSE tables)
    /\ cloud' = replicate(secrets, reach, cloud, absent, dir, tables, failTbls).cloud

\* C22: when a listed table does not exist on the target, replicate_cloud_db
\* still copies the other listed tables, creates no table on the target, and
\* its result reports that table as a per-table error instead of counting it
\* as replicated.
C22_MissingTableIsReported ==
    [][\A dir \in Directions, tables \in TableLists, failTbls \in FailLists :
          ReplCall(dir, tables, failTbls) =>
             LET x == replicate(secrets, reach, cloud, absent, dir, tables, failTbls)
                 src == SourceOf(dir)
                 tgt == TargetOf(dir)
             IN \A t \in x.list \cap absent[tgt] :
                   /\ \A u \in x.list \ x.errs :
                         cloud'[tgt][u] = InsertIgnore(DOMAIN cloud[src][u], cloud[src][u],
                                                       cloud[tgt][u], u \in UniqueKeyTables)
                   /\ absent' = absent
                   /\ cloud'[tgt][t] = EmptyTable
                   /\ x.count <= Cardinality(x.list \ {t})
                   /\ t \in x.named]_vars

OtherEndpoint(e) == IF e = "PRIMARY" THEN "BACKUP" ELSE "PRIMARY"
OppositeOf(dir) == IF dir = "PRIMARY_TO_SECONDARY" THEN "SECONDARY_TO_PRIMARY"
                   ELSE "PRIMARY_TO_SECONDARY"

\* The two instances with their roles exchanged
Swapped(f) == [e \in Endpoints |-> f[OtherEndpoint(e)]]

C24_OmittedListIsSourceTables ==
    [][\A dir \in Directions, failTbls \in FailLists :
          ReplCall(dir, {}, failTbls) =>
             LET x == replicate(secrets, reach, cloud, absent, dir, {}, failTbls)
                 src == SourceOf(dir)
                 tgt == TargetOf(dir)
                 onSource == CloudTables \ absent[src]
             IN /\ x.ok =>
                     /\ x.list = onSource
                     /\ \A t \in CloudTables \ onSource : cloud'[tgt][t] = cloud[tgt][t]
                     /\ \A t \in onSource \ x.errs :
                           cloud'[tgt][t] = InsertIgnore(DOMAIN cloud[src][t], cloud[src][t],
                                                         cloud[tgt][t], t \in UniqueKeyTables)
                /\ (~reach[src] \/ onSource = {}) => (~x.ok /\ cloud' = cloud)]_vars

\* C24 witness: the backup lacks the assets table; a replication with the
\* list omitted has copied the primary's companion user and a ticket, tables
\* that only a list read from the source contains
C24_Witness ==
    /\ absent["BACKUP"] = {"assets"}
    /\ cloud["BACKUP"]["companion_users"] = cloud["PRIMARY"]["companion_users"]
    /\ cloud["BACKUP"]["companion_users"] # EmptyTable
    /\ \E i \in DOMAIN cloud["PRIMARY"]["tickets"] :
          /\ i \in DOMAIN cloud["BACKUP"]["tickets"]
          /\ cloud["BACKUP"]["tickets"][i] = cloud["PRIMARY"]["tickets"][i]
    /\ cloud["BACKUP"]["assets"] = EmptyTable

\* The configured paths, and the names of the regular files under a path
local_dir == get_storage_config(cfgFile).local_path
net_dir == get_storage_config(cfgFile).network_path
DirFiles(F, p) == IF p \in Dirs /\ F[p].exists THEN FileNames(F[p].ent) ELSE {}
DirNames(F, p) == IF p \in Dirs /\ F[p].exists THEN DOMAIN F[p].ent ELSE {}

\* The network directory is set and exists
NetReachable == net_dir # "" /\ fs[net_dir].exists

\* Some name is a regular file on one side and a subdirectory on the other
KindClash ==
    \/ DirFiles(fs, local_dir) \cap (DirNames(fs, net_dir) \ DirFiles(fs, net_dir)) # {}
    \/ DirFiles(fs, net_dir) \cap (DirNames(fs, local_dir) \ DirFiles(fs, local_dir)) # {}

C26_SyncNeverOverwrites ==
    [][SyncFilesOp =>
          /\ \A d \in Dirs : \A x \in DirNames(fs, d) :
                /\ x \in DirNames(fs', d)
                /\ fs'[d].ent[x] = fs[d].ent[x]
          /\ sync_files(fs', cfgFile).fs = fs']_vars

\* C26 witness: after a successful run between two distinct directories the
\* file a is on both sides with different contents
C26_Witness ==
    /\ filesRet = "ok"
    /\ local_dir = "2D_Storage"
    /\ net_dir = "share"
    /\ "a" \in DirFiles(fs, "2D_Storage") \cap DirFiles(fs, "share")
    /\ fs["2D_Storage"].ent["a"].c # fs["share"].ent["a"].c
    /\ "b" \in DirFiles(fs, "2D_Storage") \cap DirFiles(fs, "share")
    /\ fs["2D_Storage"].ent["b"].c = fs["share"].ent["b"].c

\* C27: if the network directory is unset, does not exist, or is the same
\* path as the local directory, file sync changes nothing on either side (no
\* file is copied, no directory is created) and sync_files returns without
\* error.
C27_NoNetworkDirIsNoOp ==
    [][(SyncFilesOp /\ (net_dir = "" \/ net_dir = local_dir \/ ~fs[net_dir].exists)) =>
          /\ fs' = fs
          /\ filesRet' = "ok"]_vars

\* C27 witness: sync_files has returned success where the network path is
\* set to a directory that does not exist; the local directory, which did
\* not exist either, has not been created
C27_Witness ==
    /\ filesRet = "ok"
    /\ local_dir = "2D_Storage"
    /\ net_dir = "share"
    /\ ~fs["share"].exists
    /\ ~fs["2D_Storage"].exists

\* A config file that holds the legacy storage_path key and neither of the
\* two current keys
LegacyOnly(cf) ==
    /\ cf.state = "ok"
    /\ cf.storage_path # NoKey
    /\ cf.network_path = NoKey
    /\ cf.local_path = NoKey

\* C29: get_storage_config after set_storage_config(l, n) returns
\* local_path = l and network_path = n; a file holding only the legacy
\* storage_path key is read as network_path = that value with the default
\* local path; after any set_storage_config the legacy key is not stored;
\* a missing or unreadable file yields the defaults.
C29_StorageConfigRoundTrip ==
    /\ [](/\ \A l \in Paths, n \in Paths :
                /\ get_storage_config(set_storage_config(cfgFile, l, n)) =
                      [local_path |-> l, network_path |-> n]
                /\ set_storage_config(cfgFile, l, n).storage_path = NoKey
          /\ LegacyOnly(cfgFile) =>
                get_storage_config(cfgFile) =
                   [local_path |-> "2D_Storage", network_path |-> cfgFile.storage_path]
          /\ cfgFile.state # "ok" =>
                get_storage_config(cfgFile) =
                   [local_path |-> "2D_Storage", network_path |-> ""])
    /\ [][SetStorageConfig =>
             /\ cfgFile'.storage_path = NoKey
             /\ \E l \in Paths, n \in Paths :
                   /\ cfgFile' = set_storage_config(cfgFile, l, n)
                   /\ get_storage_config(cfgFile') =
                         [local_path |-> l, network_path |-> n]]_vars

\* C29 witness: the file as set_storage_config("2D_Storage", "share")
\* leaves it, read back as those two paths, after a file sync has run
C29_Witness ==
    /\ cfgFile = [state |-> "ok", local_path |-> "2D_Storage",
                  network_path |-> "share", storage_path |-> NoKey]
    /\ get_storage_config(cfgFile) =
          [local_path |-> "2D_Storage", network_path |-> "share"]
    /\ filesRet = "ok"

\* A step of one of the companion-user operations that write
CompanionUserOp ==
    \/ AddCompanionUser
    \/ DeleteCompanionUser
    \/ UpdateCompanionUserStatus
    \/ UpdateCompanionUserPassword

\* The designated user host is configured and answers
VpsUsable == secrets.vps # "NONE" /\ reach[secrets.vps]

\* C28: every companion-user operation (list, add, delete, set active,
\* update password) reads and writes only the designated user host,
\* whatever the mode and the cloud source; it changes neither mode nor cloud
\* source nor the local cache; when the designated host is not configured or
\* cannot be reached the operation fails (the list is empty) and no other
\* endpoint is used.
C28_CompanionUsersOnlyOnVps ==
    /\ [](get_companion_users(secrets, reach, cloud) =
             IF VpsUsable THEN cloud[secrets.vps]["companion_users"] ELSE EmptyTable)
    /\ [][CompanionUserOp =>
             /\ mode' = mode
             /\ cloud_source' = cloud_source
             /\ local' = local
             /\ offline' = offline
             /\ \A e \in Endpoints : \A t \in CloudTables :
                   (e # secrets.vps \/ t # "companion_users") => cloud'[e][t] = cloud[e][t]
             /\ ~VpsUsable => cloud' = cloud]_vars

\* C28 witness: the manager is in CLOUD mode on the primary while the user
\* host is the backup; a companion user has been added and then updated,
\* and it is on the backup only
C28_Witness ==
    /\ mode = "CLOUD"
    /\ cloud_source = "PRIMARY"
    /\ secrets.vps = "BACKUP"
    /\ \E j \in DOMAIN cloud["BACKUP"]["companion_users"] :
          /\ cloud["BACKUP"]["companion_users"][j].k = 1
          /\ cloud["BACKUP"]["companion_users"][j].b = 0
    /\ DOMAIN cloud["PRIMARY"]["companion_users"] = {}
    /\ DOMAIN get_companion_users(secrets, reach, cloud) # {}

\* C30: the due date of a ticket created by create_ticket is the time of
\* the call plus 240 minutes for priority Critical, 480 for High, 1440 for
\* Medium and 4320 for Low; any other priority value uses 1440 minutes.
C30_DueDateFollowsSlaTable ==
    due # NoDue =>
       /\ due.priority = "Critical" => due.due_date = due.at + 240
       /\ due.priority = "High" => due.due_date = due.at + 480
       /\ due.priority = "Medium" => due.due_date = due.at + 1440
       /\ due.priority = "Low" => due.due_date = due.at + 4320
       /\ due.priority \notin {"Critical", "High", "Medium", "Low"} =>
             due.due_date = due.at + 1440

\* C30 witness: a ticket of a priority outside the table was created offline
\* one minute after start and is due 1440 minutes later
C30_Witness ==
    /\ mode = "LOCAL"
    /\ DOMAIN local["tickets"] # {}
    /\ due.priority = "Urgent"
    /\ due.at = 1
    /\ due.due_date = 1441

\* The rows of the latest link call's table, on the store st, for its
\* (asset_id, control_id)
LinkRows(st) ==
    {i \in DOMAIN ctl[st][linkRet.tbl] :
        /\ ctl[st][linkRet.tbl][i].asset_id = linkRet.asset_id
        /\ ctl[st][linkRet.tbl][i].control_id = linkRet.control_id}

\* C31: the asset-control upsert issued through execute() has the same
\* effect in LOCAL mode as in CLOUD mode: afterwards exactly one row exists
\* for (asset_id, control_id) on the active store, it carries the given
\* status and notes, and execute() reports success.
C31_UpsertSameInBothModes ==
    linkRet # NoLink =>
       LET st == linkRet.store
       IN /\ linkRet.ok
          /\ Cardinality(LinkRows(st)) = 1
          /\ \A i \in LinkRows(st) :
                /\ ctl[st][linkRet.tbl][i].status = linkRet.status
                /\ ctl[st][linkRet.tbl][i].notes = linkRet.notes

\* A manager step in which _get_cloud_conn was called and a remote answered
ProbeAnswered ==
    /\ reach' = reach
    /\ probes' # <<>>
    /\ get_cloud_conn(secrets, reach).conn # "NONE"

C33_NoSyncWithoutCall ==
    [][/\ pc' = "idle"
       /\ local' = local
       /\ cloud' = cloud]_vars

\* The tickets the step has inserted on the instance e
InsertedOn(e) == DOMAIN cloud'[e]["tickets"] \ DOMAIN cloud[e]["tickets"]

\* C34: a sync never inserts into the remote a ticket that is already there
\* (one pulled from the remote before, or pushed before), whatever its field
\* values, a null asset_id included; so a second sync run right after a
\* first one inserts nothing.  A ticket is recognised by its stamp b.
C34_PushInsertsNoDuplicate ==
    [][pc = "push" =>
          \A e \in Endpoints : \A i \in InsertedOn(e) :
             \A j \in DOMAIN cloud[e]["tickets"] :
                cloud[e]["tickets"][j].b # cloud'[e]["tickets"][i].b]_vars

\* The ticket row r is stored on no remote instance
OnNoRemote(r) ==
    \A e \in Endpoints : \A j \in DOMAIN cloud[e]["tickets"] : cloud[e]["tickets"][j].b # r.b

\* C35: a sync cycle never loses a locally created ticket: a ticket created
\* offline that is in the local cache and on no remote (its push failed or
\* was skipped) is still in the local cache after every step of the cycle;
\* the pull does not replace its row with the remote ticket of the same
\* primary key.
C35_SyncKeepsUnpushedTickets ==
    [][pc # "idle" =>
          \A i \in DOMAIN local["tickets"] :
             (local["tickets"][i] \in offline /\ OnNoRemote(local["tickets"][i])) =>
                \E j \in DOMAIN local'["tickets"] : local'["tickets"][j] = local["tickets"][i]]_vars

\* The step in which a running _push_local_tickets ends
PushEndStep == pc = "push" /\ txn.on /\ pc' = "files"

\* C36: when _push_local_tickets ends, normally or by a failure at any
\* step, a ticket is committed in the remote as newly inserted if and only
\* if its local row and its attachments are committed under the
\* remote-assigned id: every ticket the push has added to the remote is in
\* the local cache under that id with the attachments as the push remapped
\* them, and the local cache changes only if the remote gained the tickets.
C36_PushCommitsBothOrNeither ==
    [][PushEndStep =>
          LET R == cloud[txn.conn]["tickets"]
              R2 == cloud'[txn.conn]["tickets"]
              New == DOMAIN R2 \ DOMAIN R
          IN /\ \A i \in New :
                   /\ i \in DOMAIN local'["tickets"]
                   /\ local'["tickets"][i] = R2[i]
             /\ New # {} => local'["ticket_attachments"] = txn.A
             /\ New = {} => local' = local]_vars

\* C37: a ticket pushed from the local cache keeps all its field values:
\* after the sync cycle the remote row and the local row of an
\* offline-created ticket have the asset_id, related_type, ticket_type,
\* title, description, priority, status, logged_by, assigned_to and
\* due_date that the local row had before the sync.
C37_PushKeepsEveryColumn ==
    tcol.stage = "synced" =>
       \A c \in TicketColumns :
          /\ tcol.remote[c] = tcol.created[c]
          /\ tcol.local[c] = tcol.created[c]

\* The manager holds a tunnel object that the next connection will reuse
WillReuse == ssh_tunnel # 0 /\ tunnels[ssh_tunnel].host = ssh_host

\* C38: whenever the manager holds a tunnel object that it will reuse,
\* ssh_local_port is the listening port of that tunnel and the tunnel's SSH
\* transport was opened; so a tunnel start that failed leaves no object that
\* the next connection attempt would reuse.  Read between calls.
C38_ReusedTunnelIsStarted ==
    ((\A t \in Threads : tpc[t] = "idle") /\ WillReuse) =>
        /\ tunnels[ssh_tunnel].client # 0
        /\ tunnels[ssh_tunnel].local_port # 0
        /\ ssh_local_port = tunnels[ssh_tunnel].local_port

\* ---------------------------------------------- create_ticket_with_assets
\* The tables _ensure_local_schema creates in local_cache.db
LocalSchemaTables ==
    {"assets", "tickets", "ticket_attachments", "iso_controls", "nist_controls",
     "policies", "asset_controls", "asset_nist_controls", "policy_nist_mappings",
     "kpu_business_services_level1", "kpu_business_services_level2",
     "kpu_technical_services", "kpu_enterprise_assets", "kpu_component_assets",
     "kpu_enterprise_software", "kpu_enterprise_computing_machines",
     "software_licenses"}

\* A statement on table tbl raises on sqlite when the table does not exist
NoSuchTable(tbl) == tbl \notin LocalSchemaTables

AssetIds == {1, 2}
AssetLists == UNION {[1..n -> AssetIds] : n \in 0..MaxAssets}

NoLinksStored == [probes |-> <<>>, log |-> <<>>, rows |-> [st \in Stores |-> <<>>]]

\* The loop over asset_list: one execute() of the ticket_assets INSERT per
\* item, in the mode the previous execute() left; the results are not read
RECURSIVE LinkAssets(_, _, _, _, _, _, _)
LinkAssets(items, faults, m, cs, sec, rch, acc) ==
    IF items = <<>>
    THEN [mode |-> m, source |-> cs, probes |-> acc.probes, log |-> acc.log,
          rows |-> acc.rows]
    ELSE LET x == execute(m, sec, rch, cs, "q1", Head(faults), NoSuchTable("ticket_assets"))
         IN LinkAssets(Tail(items), Tail(faults), x.mode, x.source, sec, rch,
                       [probes |-> acc.probes \o x.probes,
                        log |-> acc.log \o x.log,
                        rows |-> IF x.store = "NONE" THEN acc.rows
                                 ELSE [acc.rows EXCEPT ![x.store] = Append(@, Head(items))]])

\* create_ticket_with_assets(title, ..., asset_list).  tfault: the tickets
\* INSERT raises on the cloud connection; faults[i]: the i-th link INSERT
\* raises there.  The tickets INSERT uses its own connection (a None
\* connection raises and the except returns (False, message)); the links go
\* through execute(), and (True, ticket_id) is returned after the loop.
CreateTicketWithAssets ==
    /\ pc = "idle"
    /\ \E items \in AssetLists, tfault \in BOOLEAN :
       \E faults \in [1..Len(items) -> BOOLEAN] :
        LET r == get_cloud_conn(secrets, reach)
            inCloud == mode = "CLOUD"
            inserted == inCloud => (r.conn # "NONE" /\ ~tfault)
            tstore == IF inCloud THEN r.conn ELSE "LOCAL"
            cs1 == IF inCloud THEN SourceAfter(cloud_source, r) ELSE cloud_source
            first == [NoLinksStored EXCEPT !.probes = IF inCloud THEN r.probes ELSE <<>>]
            l == IF inserted
                 THEN LinkAssets(items, faults, mode, cs1, secrets, reach, first)
                 ELSE [mode |-> mode, source |-> cs1, probes |-> first.probes,
                       log |-> <<>>, rows |-> first.rows]
        IN /\ mode' = l.mode
           /\ cloud_source' = l.source
           /\ probes' = l.probes
           /\ execLog' = l.log
           /\ execRet' = IF l.log = <<>> THEN NoCall
                         ELSE [q |-> "q1",
                               val |-> IF l.log[Len(l.log)].ok THEN "ok" ELSE "fail"]
           /\ tas' = [st \in Stores |->
                        [ticket |-> inserted /\ st = tstore, links |-> l.rows[st]]]
           /\ taRet' = [called |-> TRUE, ok |-> inserted, assets |-> items,
                        store |-> tstore]
    /\ UNCHANGED <<secrets, reach, dataVars, syncVars>>
    /\ UNCHANGED <<unext, tunVars, bootVars, raceVars, txn, fwdVars, notAssetVars>>

NextAssets ==
    \/ EnvChange
    \/ Reconnect
    \/ CreateTicketWithAssets

SpecAssets == InitLink /\ [][NextAssets]_vars

\* C39: when create_ticket_with_assets returned success, the store that was
\* active when it was called holds the tickets row and one ticket_assets row
\* per listed asset, in the listed order; no link was dropped.
C39_SuccessMeansEveryLinkStored ==
    (taRet.called /\ taRet.ok) =>
        /\ taRet.store # "NONE"
        /\ tas[taRet.store].ticket
        /\ tas[taRet.store].links = taRet.assets

\* ------------------------------------------- execute() and sync(), by frame
\* An except branch that leaves self.mode as it found it
ModeAfterCloudErrorKept(m) == m

\* self.mode after the except branch of execute()'s CLOUD part
ModeAfterCloudError(m) == "LOCAL"

FirstFrame(fn) == [fn |-> fn, pos |-> "entry", depth |-> 1, remote |-> 0, sqlite |-> 0,
                   reprobes |-> 0]

\* The caller calls execute(query, params)
CallExecute ==
    /\ pc = "idle"
    /\ rec.fn = "none"
    /\ rec' = FirstFrame("execute")
    /\ NoExec /\ NoProbe
    /\ UNCHANGED <<secrets, reach, mode, cloud_source, dataVars, syncVars>>
    /\ UNCHANGED <<unext, tunVars, bootVars, raceVars, txn, fwdVars, notRecVars>>

\* One frame of execute().  CLOUD: the statement is tried on the remote; on
\* any exception the mode is set and execute() calls itself.  LOCAL: the
\* statement runs on sqlite and the frame returns, raised or not.  Any other
\* mode: neither branch is taken and the frame returns None.
ExecuteFrame ==
    /\ rec.fn = "execute"
    /\ rec.pos = "entry"
    /\ \E qfault \in BOOLEAN, lfault \in BOOLEAN :
         IF mode = "CLOUD"
         THEN LET r == get_cloud_conn(secrets, reach)
                  tried == IF r.conn # "NONE"
                           THEN <<[store |-> r.conn, q |-> "q1", ok |-> ~qfault]>>
                           ELSE <<>>
              IN /\ cloud_source' = SourceAfter(cloud_source, r)
                 /\ probes' = r.probes
                 /\ execLog' = execLog \o tried
                 /\ IF r.conn # "NONE" /\ ~qfault
                    THEN /\ mode' = mode
                         /\ execRet' = [q |-> "q1", val |-> "ok"]
                         /\ rec' = [rec EXCEPT !.pos = "ret", !.remote = @ + 1]
                    ELSE /\ rec.depth < MaxDepth
                         /\ mode' = ModeAfterCloudError(mode)
                         /\ execRet' = execRet
                         /\ rec' = [rec EXCEPT !.depth = @ + 1, !.remote = @ + 1]
         ELSE IF mode = "LOCAL"
         THEN LET l == LocalRun("q1", lfault)
              IN /\ execLog' = execLog \o l.log
                 /\ execRet' = l.ret
                 /\ rec' = [rec EXCEPT !.pos = "ret", !.sqlite = @ + 1]
                 /\ NoProbe
                 /\ UNCHANGED <<mode, cloud_source>>
         ELSE /\ rec' = [rec EXCEPT !.pos = "ret"]
              /\ NoProbe
              /\ UNCHANGED <<mode, cloud_source, execVars>>
    /\ UNCHANGED <<secrets, reach, dataVars, syncVars>>
    /\ UNCHANGED <<unext, tunVars, bootVars, raceVars, txn, fwdVars, notRecVars>>

\* Every frame of execute() returns what the innermost one returned
ExecuteReturn ==
    /\ rec.fn = "execute"
    /\ rec.pos = "ret"
    /\ rec' = NoCallFrames
    /\ UNCHANGED <<secrets, reach, mode, cloud_source, probes, execVars, dataVars, syncVars>>
    /\ UNCHANGED <<unext, tunVars, bootVars, raceVars, txn, fwdVars, notRecVars>>

\* The caller calls sync()
CallSync ==
    /\ pc = "idle"
    /\ rec.fn = "none"
    /\ rec' = FirstFrame("sync")
    /\ NoExec /\ NoProbe
    /\ UNCHANGED <<secrets, reach, mode, cloud_source, dataVars, syncVars>>
    /\ UNCHANGED <<unext, tunVars, bootVars, raceVars, txn, fwdVars, notRecVars>>

\* One frame of sync().  CLOUD: _sync_schema, then _sync_data runs (the push,
\* file and pull steps) and the frame returns with its result.  Otherwise the
\* remotes are probed: on success the mode is set and sync() calls itself,
\* else (False, "Cannot Sync ...") is returned.
SyncFrame ==
    /\ rec.fn = "sync"
    /\ rec.pos = "entry"
    /\ pc = "idle"
    /\ IF mode = "CLOUD"
       THEN /\ pc' = "push"
            /\ schema' = TRUE
            /\ raised' = FALSE
            /\ rec' = [rec EXCEPT !.pos = "body"]
            /\ NoProbe
            /\ UNCHANGED <<mode, cloud_source, syncRet>>
       ELSE LET r == get_cloud_conn(secrets, reach)
            IN /\ cloud_source' = SourceAfter(cloud_source, r)
               /\ probes' = r.probes
               /\ raised' = TestCloudConnectionRaises(cfgOk)
               /\ UNCHANGED schema
               /\ IF test_cloud_connection(secrets, reach)
                  THEN /\ rec.depth < MaxDepth
                       /\ mode' = "CLOUD"
                       /\ rec' = [rec EXCEPT !.depth = @ + 1, !.reprobes = @ + 1]
                       /\ UNCHANGED <<pc, syncRet>>
                  ELSE /\ rec' = [rec EXCEPT !.pos = "ret", !.reprobes = @ + 1]
                       /\ syncRet' = FALSE
                       /\ UNCHANGED <<mode, pc>>
    /\ NoExec
    /\ UNCHANGED <<secrets, reach, dataVars, pullIdx, pullConn, syncLog>>
    /\ UNCHANGED <<unext, tunVars, cfgOk, raceVars, txn, fwdVars, notRecVars>>

\* Every frame of sync() returns what the innermost one returned
SyncCallReturn ==
    /\ rec.fn = "sync"
    /\ rec.pos = "ret" \/ (rec.pos = "body" /\ pc = "idle")
    /\ pc = "idle"
    /\ rec' = NoCallFrames
    /\ UNCHANGED <<secrets, reach, mode, cloud_source, probes, execVars, dataVars, syncVars>>
    /\ UNCHANGED <<unext, tunVars, bootVars, raceVars, txn, fwdVars, notRecVars>>

NextRec ==
    \/ EnvChange
    \/ CallExecute
    \/ ExecuteFrame
    \/ ExecuteReturn
    \/ CallSync
    \/ SyncFrame
    \/ SyncPush
    \/ SyncFiles
    \/ SyncConnect
    \/ SyncPullTable
    \/ SyncEnd
    \/ SyncReturn
    \/ SyncCallReturn

\* The thread that made the call keeps running it
RecFairness ==
    /\ WF_vars(ExecuteFrame) /\ WF_vars(ExecuteReturn)
    /\ WF_vars(SyncFrame) /\ WF_vars(SyncCallReturn)
    /\ WF_vars(SyncPush) /\ WF_vars(SyncFiles) /\ WF_vars(SyncConnect)
    /\ WF_vars(SyncPullTable) /\ WF_vars(SyncEnd) /\ WF_vars(SyncReturn)

SpecRec == InitLink /\ [][NextRec]_vars /\ RecFairness

\* C40: an execute() call has at most two frames, tries the remote at most
\* once and sqlite at most once; a sync() call has at most two frames and
\* probes the remotes at most once; and every call returns, whatever the
\* endpoints do while it runs.
C40_CallsReturnAfterOneRetry ==
    /\ [](rec.fn = "execute" => (rec.depth <= 2 /\ rec.remote <= 1 /\ rec.sqlite <= 1))
    /\ [](rec.fn = "sync" => (rec.depth <= 2 /\ rec.reprobes <= 1))
    /\ (rec.fn # "none") ~> (rec.fn = "none")

\* C40 witness: an execute() that failed over is about to return from its
\* second frame, after one attempt on the remote and one on sqlite
C40_Witness ==
    /\ rec.fn = "execute"
    /\ rec.pos = "ret"
    /\ rec.depth = 2
    /\ rec.remote = 1
    /\ rec.sqlite = 1

====
